---- MODULE Spec2Model ----
(***************************************************************************)
(* Inventory item request management (src/src/netaskfor.cpp).              *)
(*                                                                         *)
(* The module keeps, under the lock cs_invRequests, the per-node state     *)
(* mapNodeAskForState, the per-item state mapInvRequests and the work      *)
(* queue invRequestsWorkQueue; the thread ThreadHandleAskFor processes the *)
(* queue.  Every handler that takes the lock is one action; the worker is  *)
(* split where it samples the clock, at each iteration of its inner loop   *)
(* and where it releases the lock and waits.                               *)
(***************************************************************************)
EXTENDS Integers, Sequences, FiniteSets, TLC

\* ------------------------------------------------------------------ bounds
\* Node ids are 0 .. MaxNodeId (the first CNode of a process has id 0).
MaxNodeId == 2
\* Inventory items are 1 .. MaxInv, ordered as CInv::operator< orders them.
MaxInv == 2
\* The clock (GetTimeMicros) runs from 1 to MaxTime.
MaxTime == 3
\* How many times InitializeNode is called in one run.
MaxConnects == 3
\* The largest value of MAX_SETASKFOR_SZ a run is built with.
MaxSetAskFor == 1

\* In Spec and in the specifications with fairness the callers call for the
\* node ids 0 .. FairMaxNodeId and the items 1 .. FairMaxInv; the
\* specifications that keep the history of one item or follow a script run
\* over all of 0 .. MaxNodeId.
FairMaxNodeId == 1
FairMaxInv == 2

\* The specification that keeps the history of the items runs over the items
\* 1 .. HistMaxInv.
HistMaxInv == 1

\* The specification in which a node has more than one CNode over time hands
\* the CNode pointers 1 .. MaxHandle to AskFor.
MaxHandle == 2
\* It runs over node ids 0 .. BindMaxNodeId and items 1 .. BindMaxInv.
BindMaxNodeId == 1
BindMaxInv == 1

\* ------------------------------------------------------- program constants
\* netaskfor.h, which sets REQUEST_TIMEOUT and MAX_SETASKFOR_SZ, is not among
\* the sources; the timeout is scaled to the model's clock, and the size
\* limit is fixed at start-up to a value in 0 .. MaxSetAskFor.
REQUEST_TIMEOUT == 1

NodeIds == 0 .. MaxNodeId
Invs == 1 .. MaxInv
FairNodeIds == 0 .. FairMaxNodeId
FairInvs == 1 .. FairMaxInv
\* CNode pointers handed to AskFor; NULL is 0.
Handles == {1}
NULL == 0
\* invRequestsWorkQueue.end()
End == 0

VARIABLES
    MAX_SETASKFOR_SZ,     \* the limit on setAskFor this run is built with
    mapNodeAskForState,   \* NodeId -> [setAskFor, node]
    mapInvRequests,       \* CInv -> [nodes, notRequestedFrom, beingRequestedFrom, workQueueIter]
    invRequestsWorkQueue, \* sequence of [first, second, id], ordered as the multimap
    fHasWork,             \* condInvRequests: a notification is pending
    fStopThread,
    pc,                   \* position of ThreadHandleAskFor; "aborted": an assert failed
    now,                  \* the worker's local `now`
    wakeAt,               \* when the worker's timed_wait times out
    clock,                \* GetTimeMicros()
    nConnects,            \* calls of InitializeNode so far
    mapAskFor,            \* CInv -> the getdata requests put into CNode::mapAskFor since
                          \* the request for the item was created, oldest first:
                          \* [node, handle, deadline, gone]; deadline is when the worker
                          \* revisits the request, gone that the CNode is destroyed
    script,               \* the calls the callers of the module go on to make, in
                          \* order; <<>>: the callers are free to make any call
    everAsked,            \* CInv -> the nodes a getdata for the item ever went to
    everAnnounced,        \* CInv -> the nodes ever put into the nodes of a request for
                          \* the item; both are kept for the items of their domain
    firstOffer,           \* CInv -> for the request of the item, once a node has been
                          \* picked for it: left, the nodes that were in notRequestedFrom
                          \* at the first pick and have stayed there since, and asked,
                          \* those of them picked so far, in order (with the node of the
                          \* first pick); kept for the items of its domain
    lastBound,            \* NodeId -> the last call of AskFor for the node since it
                          \* connected: node, the CNode passed; dropped, the call found
                          \* setAskFor over the limit; used, a getdata has gone to the
                          \* node since; kept for the nodes of its domain
    requestedAt,          \* CInv -> nNow of each getdata of mapAskFor, the time
                          \* RequestItem read; kept for the items of its domain
    found                 \* NodeId -> the state the last call of InitializeNode for
                          \* the node found in mapNodeAskForState, a new state when
                          \* it found none; kept for the nodes of its domain

vars == <<MAX_SETASKFOR_SZ, mapNodeAskForState, mapInvRequests, invRequestsWorkQueue, fHasWork,
          fStopThread, pc, now, wakeAt, clock, nConnects, mapAskFor, script, everAsked,
          everAnnounced, firstOffer, lastBound, requestedAt, found>>

\* ------------------------------------------------------------- containers
Put(f, k, v) == [x \in (DOMAIN f) \cup {k} |-> IF x = k THEN v ELSE f[x]]
Drop(f, k) == [x \in (DOMAIN f) \ {k} |-> f[x]]
Min(S) == CHOOSE m \in S : \A y \in S : m <= y
EmptyMap == [x \in {} |-> 0]

\* Faulty variant: the queue is ordered by time and then by item, as a
\* std::set of pairs would be.
QueueInsert_ByInv(q, first, second) ==
    LET n == Cardinality({k \in 1 .. Len(q) :
                             \/ q[k].first < first
                             \/ q[k].first = first /\ q[k].second <= second})
        e == [first |-> first, second |-> second,
              id |-> Min({i \in 1 .. (Len(q) + 1) : \A k \in 1 .. Len(q) : q[k].id # i})]
    IN  SubSeq(q, 1, n) \o <<e>> \o SubSeq(q, n + 1, Len(q))

\* std::multimap<int64_t, CInv>::insert: the new entry goes after every entry
\* whose key is not greater (upper bound of the equal range).
QueueIds(q) == {q[k].id : k \in 1 .. Len(q)}
FreshId(q) == Min({i \in 1 .. (Len(q) + 1) : i \notin QueueIds(q)})
QueueInsert(q, first, second) ==
    LET n == Cardinality({k \in 1 .. Len(q) : q[k].first <= first})
        e == [first |-> first, second |-> second, id |-> FreshId(q)]
    IN  SubSeq(q, 1, n) \o <<e>> \o SubSeq(q, n + 1, Len(q))
\* std::multimap::erase(iterator)
QueueErase(q, it) == SelectSeq(q, LAMBDA e : e.id # it)
\* An iterator is the identity of a queue entry and nothing else: the entries
\* are renumbered by position after every handler, and an iterator whose
\* entry is gone becomes Dangling.
Dangling == -1
Renumber(q, it) ==
    IF it = End
    THEN End
    ELSE IF \E k \in 1 .. Len(q) : q[k].id = it
         THEN CHOOSE k \in 1 .. Len(q) : q[k].id = it
         ELSE Dangling

\* CNodeAskForState() and CInvState(): value-initialised members
NewNodeState == [setAskFor |-> {}, node |-> NULL]
NewInvState == [nodes |-> {}, notRequestedFrom |-> {}, beingRequestedFrom |-> 0,
                workQueueIter |-> End]

\* The three structures under cs_invRequests, as one value.
Locked(ns, rq, q, notify, ok, log) ==
    [ns |-> ns, rq |-> rq, q |-> q, notify |-> notify, ok |-> ok, log |-> log]

\* State(nodeid) != NULL
State(ns, nodeid) == nodeid \in DOMAIN ns

\* What the handlers below read and write, taken from the variables.
Cur == Locked(mapNodeAskForState, mapInvRequests, invRequestsWorkQueue, FALSE, TRUE,
              mapAskFor)

\* ---------------------------------------------------------------- Forget
\* Faulty variant: the work queue entry of the item stays.
Forget_KeepsQueueEntry(s, inv) ==
    LET row == s.rq[inv]
    IN  [s EXCEPT
            !.ns = [n \in DOMAIN s.ns |->
                       IF n \in row.nodes
                       THEN [s.ns[n] EXCEPT !.setAskFor = @ \ {inv}]
                       ELSE s.ns[n]],
            !.rq = Drop(s.rq, inv),
            !.log = [s.log EXCEPT ![inv] = <<>>],
            !.ok = s.ok /\ (\A n \in row.nodes : State(s.ns, n))]

\* Faulty variant: the request stays in mapInvRequests.
Forget_KeepsRequest(s, inv) ==
    LET row == s.rq[inv]
    IN  [s EXCEPT
            !.ns = [n \in DOMAIN s.ns |->
                       IF n \in row.nodes
                       THEN [s.ns[n] EXCEPT !.setAskFor = @ \ {inv}]
                       ELSE s.ns[n]],
            !.q = IF row.workQueueIter # End
                  THEN QueueErase(s.q, row.workQueueIter)
                  ELSE s.q,
            !.rq[inv].workQueueIter = End,
            !.log = [s.log EXCEPT ![inv] = <<>>],
            !.ok = s.ok /\ (\A n \in row.nodes : State(s.ns, n))]

\* Forget(i): drop the item from the set of every node of the request, drop
\* its work queue entry, drop the request.  assert(state) fails for a node
\* of the request that has no state.
Forget(s, inv) ==
    LET row == s.rq[inv]
    IN  [s EXCEPT
            !.ns = [n \in DOMAIN s.ns |->
                       IF n \in row.nodes
                       THEN [s.ns[n] EXCEPT !.setAskFor = @ \ {inv}]
                       ELSE s.ns[n]],
            !.q = IF row.workQueueIter # End
                  THEN QueueErase(s.q, row.workQueueIter)
                  ELSE s.q,
            !.rq = Drop(s.rq, inv),
            !.log = [s.log EXCEPT ![inv] = <<>>],
            !.ok = s.ok /\ (\A n \in row.nodes : State(s.ns, n))]

\* ----------------------------------------------------------- RequestItem
\* assert(state && state->node); beingRequestedFrom = nodeid; the getdata
\* goes into node->mapAskFor under the time read here.
RequestItem(s, nodeid, inv, deadline) ==
    IF State(s.ns, nodeid) /\ s.ns[nodeid].node # NULL
    THEN [s EXCEPT
            !.rq[inv].beingRequestedFrom = nodeid,
            !.log[inv] = Append(@, [node |-> nodeid,
                                    handle |-> s.ns[nodeid].node,
                                    deadline |-> deadline,
                                    gone |-> FALSE])]
    ELSE [s EXCEPT !.ok = FALSE]

\* ------------------------------------------------------------ FinalizeNode
\* Faulty variant: the node stays in the nodes of the request.
FinalizeInv_KeepsNodes(s, nodeid, inv) ==
    IF inv \notin DOMAIN s.rq
    THEN s
    ELSE [s EXCEPT !.rq[inv].notRequestedFrom = @ \ {nodeid}]

\* Faulty variant: the node stays in notRequestedFrom.
FinalizeInv_KeepsUntried(s, nodeid, inv) ==
    IF inv \notin DOMAIN s.rq
    THEN s
    ELSE [s EXCEPT !.rq[inv].nodes = @ \ {nodeid}]

\* Faulty variant: the request of a node in flight is not put back to work.
FinalizeInv_NoRequeue(s, nodeid, inv) ==
    IF inv \notin DOMAIN s.rq
    THEN s
    ELSE [s EXCEPT !.rq[inv].nodes = @ \ {nodeid},
                   !.rq[inv].notRequestedFrom = @ \ {nodeid}]

\* Faulty variant: the request of a node in flight keeps its work queue
\* entry, due at the end of the timeout.
FinalizeInv_KeepsDeadline(s, nodeid, inv) ==
    IF inv \notin DOMAIN s.rq
    THEN s
    ELSE
        LET row == s.rq[inv]
            purged == [row EXCEPT !.nodes = @ \ {nodeid},
                                  !.notRequestedFrom = @ \ {nodeid}]
        IN  IF row.beingRequestedFrom = nodeid
            THEN [s EXCEPT !.rq[inv] = [purged EXCEPT !.beingRequestedFrom = 0],
                           !.notify = TRUE]
            ELSE [s EXCEPT !.rq[inv] = purged]

\* One iteration of BOOST_FOREACH(inv, state->setAskFor).
FinalizeInv(s, nodeid, inv) ==
    IF inv \notin DOMAIN s.rq
    THEN s
    ELSE
        LET row == s.rq[inv]
            purged == [row EXCEPT !.nodes = @ \ {nodeid},
                                  !.notRequestedFrom = @ \ {nodeid}]
        IN  IF row.beingRequestedFrom = nodeid
            THEN LET q1 == IF row.workQueueIter # End
                           THEN QueueErase(s.q, row.workQueueIter)
                           ELSE s.q
                 IN  [s EXCEPT
                        !.rq[inv] = [purged EXCEPT !.beingRequestedFrom = 0,
                                                   !.workQueueIter = FreshId(q1)],
                        !.q = QueueInsert(q1, 0, inv),
                        !.notify = TRUE]
            ELSE [s EXCEPT !.rq[inv] = purged]

\* Faulty variant: the loop over setAskFor ends after its first item.
FinalizeLoop_FirstOnly(s, nodeid, todo) ==
    IF todo = {}
    THEN s
    ELSE FinalizeInv(s, nodeid, Min(todo))

RECURSIVE FinalizeLoop(_, _, _)
FinalizeLoop(s, nodeid, todo) ==
    IF todo = {}
    THEN s
    ELSE LET inv == Min(todo)
         IN  FinalizeLoop(FinalizeInv(s, nodeid, inv), nodeid, todo \ {inv})

\* The CNode of the node goes away with the node.
NodeGone(log, nodeid) ==
    [inv \in DOMAIN log |->
        [k \in 1 .. Len(log[inv]) |->
            IF log[inv][k].node = nodeid
            THEN [log[inv][k] EXCEPT !.gone = TRUE]
            ELSE log[inv][k]]]

FinalizeNodeBody(s, nodeid) ==
    LET r == FinalizeLoop(s, nodeid, s.ns[nodeid].setAskFor)
    IN  [r EXCEPT !.ns = Drop(r.ns, nodeid), !.log = NodeGone(r.log, nodeid)]

\* ------------------------------------------------------------------ AskFor
\* Faulty variant: a node that announces again is untried again.
AskForBody_AlwaysUntried(s, nodeid, node, inv) ==
    LET bound == [s EXCEPT !.ns[nodeid].node = node]
    IN  IF Cardinality(bound.ns[nodeid].setAskFor) > MAX_SETASKFOR_SZ
        THEN bound
        ELSE
            LET created ==
                    IF inv \notin DOMAIN bound.rq
                    THEN [bound EXCEPT
                            !.rq = Put(bound.rq, inv,
                                       [NewInvState EXCEPT
                                           !.workQueueIter = FreshId(bound.q)]),
                            !.q = QueueInsert(bound.q, 0, inv),
                            !.notify = TRUE]
                    ELSE bound
            IN  [created EXCEPT
                    !.rq[inv].nodes = @ \cup {nodeid},
                    !.rq[inv].notRequestedFrom = @ \cup {nodeid},
                    !.ns[nodeid].setAskFor = @ \cup {inv}]

\* Faulty variant: a new request is queued and the worker is not notified.
AskForBody_NoNotify(s, nodeid, node, inv) ==
    LET bound == [s EXCEPT !.ns[nodeid].node = node]
    IN  IF Cardinality(bound.ns[nodeid].setAskFor) > MAX_SETASKFOR_SZ
        THEN bound
        ELSE
            LET created ==
                    IF inv \notin DOMAIN bound.rq
                    THEN [bound EXCEPT
                            !.rq = Put(bound.rq, inv,
                                       [NewInvState EXCEPT
                                           !.workQueueIter = FreshId(bound.q)]),
                            !.q = QueueInsert(bound.q, 0, inv)]
                    ELSE bound
                row == created.rq[inv]
            IN  [created EXCEPT
                    !.rq[inv] =
                        [row EXCEPT
                            !.nodes = @ \cup {nodeid},
                            !.notRequestedFrom =
                                IF nodeid \notin row.nodes
                                THEN @ \cup {nodeid}
                                ELSE @],
                    !.ns[nodeid].setAskFor = @ \cup {inv}]

\* Faulty variant: a new request gets no work queue entry.
AskForBody_NoQueueEntry(s, nodeid, node, inv) ==
    LET bound == [s EXCEPT !.ns[nodeid].node = node]
    IN  IF Cardinality(bound.ns[nodeid].setAskFor) > MAX_SETASKFOR_SZ
        THEN bound
        ELSE
            LET created ==
                    IF inv \notin DOMAIN bound.rq
                    THEN [bound EXCEPT !.rq = Put(bound.rq, inv, NewInvState),
                                       !.notify = TRUE]
                    ELSE bound
                row == created.rq[inv]
            IN  [created EXCEPT
                    !.rq[inv] =
                        [row EXCEPT
                            !.nodes = @ \cup {nodeid},
                            !.notRequestedFrom =
                                IF nodeid \notin row.nodes
                                THEN @ \cup {nodeid}
                                ELSE @],
                    !.ns[nodeid].setAskFor = @ \cup {inv}]

\* Faulty variant: the node is put into notRequestedFrom without being put
\* into nodes.
AskForBody_UntriedOnly(s, nodeid, node, inv) ==
    LET bound == [s EXCEPT !.ns[nodeid].node = node]
    IN  IF Cardinality(bound.ns[nodeid].setAskFor) > MAX_SETASKFOR_SZ
        THEN bound
        ELSE
            LET created ==
                    IF inv \notin DOMAIN bound.rq
                    THEN [bound EXCEPT
                            !.rq = Put(bound.rq, inv,
                                       [NewInvState EXCEPT
                                           !.workQueueIter = FreshId(bound.q)]),
                            !.q = QueueInsert(bound.q, 0, inv),
                            !.notify = TRUE]
                    ELSE bound
            IN  [created EXCEPT
                    !.rq[inv].notRequestedFrom = @ \cup {nodeid},
                    !.ns[nodeid].setAskFor = @ \cup {inv}]

\* Faulty variant: the CNode is kept only by a call that is not dropped.
AskForBody_BindsAfterBound(s, nodeid, node, inv) ==
    IF Cardinality(s.ns[nodeid].setAskFor) > MAX_SETASKFOR_SZ
    THEN s
    ELSE
        LET bound == [s EXCEPT !.ns[nodeid].node = node]
            created ==
                IF inv \notin DOMAIN bound.rq
                THEN [bound EXCEPT
                        !.rq = Put(bound.rq, inv,
                                   [NewInvState EXCEPT
                                       !.workQueueIter = FreshId(bound.q)]),
                        !.q = QueueInsert(bound.q, 0, inv),
                        !.notify = TRUE]
                ELSE bound
            row == created.rq[inv]
        IN  [created EXCEPT
                !.rq[inv] =
                    [row EXCEPT
                        !.nodes = @ \cup {nodeid},
                        !.notRequestedFrom =
                            IF nodeid \notin row.nodes
                            THEN @ \cup {nodeid}
                            ELSE @],
                !.ns[nodeid].setAskFor = @ \cup {inv}]

AskForBody(s, nodeid, node, inv) ==
    LET bound == [s EXCEPT !.ns[nodeid].node = node]
    IN  IF Cardinality(bound.ns[nodeid].setAskFor) > MAX_SETASKFOR_SZ
        THEN bound
        ELSE
            LET created ==
                    IF inv \notin DOMAIN bound.rq
                    THEN [bound EXCEPT
                            !.rq = Put(bound.rq, inv,
                                       [NewInvState EXCEPT
                                           !.workQueueIter = FreshId(bound.q)]),
                            !.q = QueueInsert(bound.q, 0, inv),
                            !.notify = TRUE]
                    ELSE bound
                row == created.rq[inv]
            IN  [created EXCEPT
                    !.rq[inv] =
                        [row EXCEPT
                            !.nodes = @ \cup {nodeid},
                            !.notRequestedFrom =
                                IF nodeid \notin row.nodes
                                THEN @ \cup {nodeid}
                                ELSE @],
                    !.ns[nodeid].setAskFor = @ \cup {inv}]

\* --------------------------------------------------------------- Completed
\* Faulty variant: an item that has no request fails an assert.
CompletedBody_AssertsRequest(s, inv) ==
    IF inv \in DOMAIN s.rq THEN Forget(s, inv) ELSE [s EXCEPT !.ok = FALSE]

CompletedBody(s, inv) ==
    IF inv \in DOMAIN s.rq THEN Forget(s, inv) ELSE s

\* ------------------------------------------------- ThreadHandleAskFor, loop
Max(S) == CHOOSE m \in S : \A y \in S : m >= y

\* Faulty variants of the loop body: the iterator of the new entry is not
\* kept (1); the node with the largest id is picked (2); a request with no
\* untried node is left alone (3); the new entry is due one time unit after
\* the end of the timeout (4).
ProcessHeadFaulty(s, tnow, fault) ==
    LET inv == s.q[1].second
        r == IF inv \in DOMAIN s.rq
             THEN LET s1 == [s EXCEPT !.rq[inv].workQueueIter = End]
                  IN  IF s1.rq[inv].notRequestedFrom = {}
                      THEN IF fault = 3 THEN s1 ELSE Forget(s1, inv)
                      ELSE LET nodeid == IF fault = 2
                                         THEN Max(s1.rq[inv].notRequestedFrom)
                                         ELSE Min(s1.rq[inv].notRequestedFrom)
                               s2 == [s1 EXCEPT !.rq[inv].notRequestedFrom = @ \ {nodeid}]
                               s3 == RequestItem(s2, nodeid, inv, tnow + REQUEST_TIMEOUT)
                           IN  [s3 EXCEPT
                                  !.rq[inv].workQueueIter =
                                      IF fault = 1 THEN End ELSE FreshId(s3.q),
                                  !.q = QueueInsert(s3.q,
                                                    IF fault = 4
                                                    THEN tnow + REQUEST_TIMEOUT + 1
                                                    ELSE tnow + REQUEST_TIMEOUT,
                                                    inv)]
             ELSE s
    IN  [r EXCEPT !.q = Tail(r.q)]
ProcessHead_LateRetry(s, tnow) == ProcessHeadFaulty(s, tnow, 4)
ProcessHead_NoCursor(s, tnow) == ProcessHeadFaulty(s, tnow, 1)
ProcessHead_PicksLargest(s, tnow) == ProcessHeadFaulty(s, tnow, 2)
ProcessHead_NoForget(s, tnow) == ProcessHeadFaulty(s, tnow, 3)

\* One iteration of the while loop over the entries that are due: the entry
\* at begin() is looked at, and erased at the end of the iteration.
ProcessHead(s, tnow) ==
    LET inv == s.q[1].second
        r == IF inv \in DOMAIN s.rq
             THEN LET s1 == [s EXCEPT !.rq[inv].workQueueIter = End]
                  IN  IF s1.rq[inv].notRequestedFrom = {}
                      THEN Forget(s1, inv)
                      ELSE LET nodeid == Min(s1.rq[inv].notRequestedFrom)
                               s2 == [s1 EXCEPT !.rq[inv].notRequestedFrom = @ \ {nodeid}]
                               s3 == RequestItem(s2, nodeid, inv, tnow + REQUEST_TIMEOUT)
                           IN  [s3 EXCEPT
                                  !.rq[inv].workQueueIter = FreshId(s3.q),
                                  !.q = QueueInsert(s3.q, tnow + REQUEST_TIMEOUT, inv)]
             ELSE s
    IN  [r EXCEPT !.q = Tail(r.q)]

\* ----------------------------------------------------------------- actions
\* No node has been picked for the request of an item.
NoOffer == [left |-> {}, asked |-> <<>>]
LastOf(seq) == seq[Len(seq)]
\* AskFor has not been called for a node since it connected.
NoBinding == [node |-> NULL, dropped |-> FALSE, used |-> FALSE]

\* assert(...) failed: abort().  Nothing of the process remains.
Crash ==
    /\ pc' = "aborted"
    /\ UNCHANGED MAX_SETASKFOR_SZ
    /\ mapNodeAskForState' = EmptyMap
    /\ mapInvRequests' = EmptyMap
    /\ invRequestsWorkQueue' = <<>>
    /\ fHasWork' = FALSE
    /\ fStopThread' = FALSE
    /\ now' = 0
    /\ wakeAt' = 0
    /\ clock' = 1
    /\ nConnects' = 0
    /\ mapAskFor' = [inv \in Invs |-> <<>>]
    /\ everAsked' = [inv \in DOMAIN everAsked |-> {}]
    /\ everAnnounced' = [inv \in DOMAIN everAnnounced |-> {}]
    /\ firstOffer' = [inv \in DOMAIN firstOffer |-> NoOffer]
    /\ lastBound' = [n \in DOMAIN lastBound |-> NoBinding]
    /\ requestedAt' = [inv \in DOMAIN requestedAt |-> <<>>]
    /\ found' = [n \in DOMAIN found |-> NewNodeState]

\* The result of a handler becomes the state when no assert failed.
Commit(r) ==
    /\ mapNodeAskForState' = r.ns
    /\ mapInvRequests' =
          [inv \in DOMAIN r.rq |->
              [r.rq[inv] EXCEPT !.workQueueIter = Renumber(r.q, @)]]
    /\ invRequestsWorkQueue' = [k \in 1 .. Len(r.q) |-> [r.q[k] EXCEPT !.id = k]]
    /\ mapAskFor' = r.log
    /\ fHasWork' = (fHasWork \/ r.notify)
    /\ everAsked' =
          [inv \in DOMAIN everAsked |->
              everAsked[inv] \cup {r.log[inv][k].node : k \in 1 .. Len(r.log[inv])}]
    /\ everAnnounced' =
          [inv \in DOMAIN everAnnounced |->
              everAnnounced[inv] \cup (IF inv \in DOMAIN r.rq THEN r.rq[inv].nodes ELSE {})]
    /\ firstOffer' =
          [inv \in DOMAIN firstOffer |->
              IF inv \notin DOMAIN r.rq \/ r.log[inv] = <<>>
              THEN NoOffer
              ELSE IF mapAskFor[inv] = <<>>
                   THEN [left |-> r.rq[inv].notRequestedFrom,
                         asked |-> <<LastOf(r.log[inv]).node>>]
                   ELSE [left |-> firstOffer[inv].left \cap r.rq[inv].notRequestedFrom,
                         asked |-> IF /\ Len(r.log[inv]) > Len(mapAskFor[inv])
                                      /\ LastOf(r.log[inv]).node \in firstOffer[inv].left
                                   THEN Append(firstOffer[inv].asked, LastOf(r.log[inv]).node)
                                   ELSE firstOffer[inv].asked]]
    /\ requestedAt' =
          [inv \in DOMAIN requestedAt |->
              IF r.log[inv] = <<>>
              THEN <<>>
              ELSE IF Len(r.log[inv]) > Len(mapAskFor[inv])
                   THEN Append(requestedAt[inv], clock)
                   ELSE requestedAt[inv]]
    /\ found' = found

\* A call of a handler from outside: any call when the callers are free,
\* the next call of the script otherwise.  The script ends with Over, which
\* is no call.
Over == [op |-> "none", nodeid |-> 0, inv |-> 0]
Called(op, nodeid, inv) ==
    IF script = <<>>
    THEN UNCHANGED script
    ELSE /\ Head(script) = [op |-> op, nodeid |-> nodeid, inv |-> inv]
         /\ script' = Tail(script)

\* The record of the last call of AskFor for the node becomes b.
Binding(nodeid, b) ==
    lastBound' = [n \in DOMAIN lastBound |-> IF n = nodeid THEN b ELSE lastBound[n]]
\* The nodes a getdata goes to when r is the result of the step.
FetchedFrom(r) ==
    {LastOf(r.log[inv]).node : inv \in {i \in Invs : Len(r.log[i]) > Len(mapAskFor[i])}}

\* cs_invRequests is free and the process runs.
Running == pc # "aborted"
LockFree == pc \notin {"locked", "aborted"}

Init ==
    /\ MAX_SETASKFOR_SZ \in 0 .. MaxSetAskFor
    /\ mapNodeAskForState = EmptyMap
    /\ mapInvRequests = EmptyMap
    /\ invRequestsWorkQueue = <<>>
    /\ fHasWork = FALSE
    /\ fStopThread = FALSE
    /\ pc = "unstarted"
    /\ now = 0
    /\ wakeAt = 0
    /\ clock = 1
    /\ nConnects = 0
    /\ mapAskFor = [inv \in Invs |-> <<>>]
    /\ script = <<>>
    /\ everAsked = EmptyMap
    /\ everAnnounced = EmptyMap
    /\ firstOffer = EmptyMap
    /\ lastBound = EmptyMap
    /\ requestedAt = EmptyMap
    /\ found = EmptyMap

\* What InitializeNode finds in mapNodeAskForState is kept for the node.
Finds(nodeid) ==
    found' = [n \in DOMAIN found |->
                 IF n = nodeid
                 THEN IF State(mapNodeAskForState, nodeid)
                      THEN mapNodeAskForState[nodeid]
                      ELSE NewNodeState
                 ELSE found[n]]

\* Faulty variant: the node gets a new state whether it has one or not, as
\* with mapNodeAskForState[nodeid] = CNodeAskForState().
InitializeNode_Resets(nodeid) ==
    /\ LockFree
    /\ Called("InitializeNode", nodeid, 0)
    /\ nConnects < MaxConnects
    /\ nConnects' = nConnects + 1
    /\ mapNodeAskForState' = Put(mapNodeAskForState, nodeid, NewNodeState)
    /\ Finds(nodeid)
    /\ UNCHANGED <<MAX_SETASKFOR_SZ, mapInvRequests, invRequestsWorkQueue, fHasWork, fStopThread, pc,
                   now, wakeAt, clock, mapAskFor, everAsked, everAnnounced, firstOffer, lastBound, requestedAt>>

\* mapNodeAskForState.insert(...): a node that has a state keeps it.
InitializeNode(nodeid) ==
    /\ LockFree
    /\ Called("InitializeNode", nodeid, 0)
    /\ nConnects < MaxConnects
    /\ nConnects' = nConnects + 1
    /\ mapNodeAskForState' =
          IF State(mapNodeAskForState, nodeid)
          THEN mapNodeAskForState
          ELSE Put(mapNodeAskForState, nodeid, NewNodeState)
    /\ Finds(nodeid)
    /\ UNCHANGED <<MAX_SETASKFOR_SZ, mapInvRequests, invRequestsWorkQueue, fHasWork, fStopThread, pc,
                   now, wakeAt, clock, mapAskFor, everAsked, everAnnounced, firstOffer, lastBound, requestedAt>>

FinalizeNode(nodeid) ==
    /\ LockFree
    /\ Called("FinalizeNode", nodeid, 0)
    /\ IF State(mapNodeAskForState, nodeid)
       THEN /\ Commit(FinalizeNodeBody(Cur, nodeid))
            /\ Binding(nodeid, NoBinding)
            /\ UNCHANGED <<MAX_SETASKFOR_SZ, fStopThread, pc, now, wakeAt, clock, nConnects>>
       ELSE Crash

\* Faulty variant: a node that has no state gets one, as with
\* mapNodeAskForState[nodeid], instead of failing the assert.
AskFor_CreatesState(nodeid, node, inv) ==
    /\ LockFree
    /\ Called("AskFor", nodeid, inv)
    /\ Commit(AskForBody([Cur EXCEPT !.ns = IF State(@, nodeid)
                                            THEN @
                                            ELSE Put(@, nodeid, NewNodeState)],
                         nodeid, node, inv))
    /\ Binding(nodeid, [node |-> node, dropped |-> FALSE, used |-> FALSE])
    /\ UNCHANGED <<MAX_SETASKFOR_SZ, fStopThread, pc, now, wakeAt, clock, nConnects>>

AskFor(nodeid, node, inv) ==
    /\ LockFree
    /\ Called("AskFor", nodeid, inv)
    /\ IF State(mapNodeAskForState, nodeid)
       THEN /\ Commit(AskForBody(Cur, nodeid, node, inv))
            /\ Binding(nodeid, [node |-> node,
                                dropped |-> Cardinality(mapNodeAskForState[nodeid].setAskFor)
                                               > MAX_SETASKFOR_SZ,
                                used |-> FALSE])
            /\ UNCHANGED <<MAX_SETASKFOR_SZ, fStopThread, pc, now, wakeAt, clock, nConnects>>
       ELSE Crash

Completed(inv) ==
    /\ LockFree
    /\ Called("Completed", 0, inv)
    /\ IF CompletedBody(Cur, inv).ok
       THEN /\ Commit(CompletedBody(Cur, inv))
            /\ UNCHANGED <<MAX_SETASKFOR_SZ, fStopThread, pc, now, wakeAt, clock, nConnects,
                           lastBound>>
       ELSE Crash

StartThreads ==
    /\ pc = "unstarted"
    /\ fStopThread' = FALSE
    /\ pc' = "loop"
    /\ UNCHANGED <<MAX_SETASKFOR_SZ, mapNodeAskForState, mapInvRequests, invRequestsWorkQueue, fHasWork,
                   now, wakeAt, clock, nConnects, mapAskFor,
                   script, everAsked, everAnnounced, firstOffer, lastBound, requestedAt, found>>

\* Faulty variant: the flag is set and nobody is notified.
StopThreads_NoNotify ==
    /\ pc \notin {"unstarted", "aborted"}
    /\ ~fStopThread
    /\ fStopThread' = TRUE
    /\ UNCHANGED <<MAX_SETASKFOR_SZ, mapNodeAskForState, mapInvRequests, invRequestsWorkQueue, fHasWork,
                   pc, now, wakeAt, clock, nConnects, mapAskFor, script, everAsked, everAnnounced, firstOffer, lastBound, requestedAt, found>>

StopThreads ==
    /\ pc \notin {"unstarted", "aborted"}
    /\ ~fStopThread
    /\ fStopThread' = TRUE
    /\ fHasWork' = TRUE
    /\ UNCHANGED <<MAX_SETASKFOR_SZ, mapNodeAskForState, mapInvRequests, invRequestsWorkQueue, pc,
                   now, wakeAt, clock, nConnects, mapAskFor,
                   script, everAsked, everAnnounced, firstOffer, lastBound, requestedAt, found>>

\* while (!fStopThread) { LOCK(cs_invRequests); now = GetTimeMicros();
WorkerIterate ==
    /\ pc = "loop"
    /\ IF fStopThread
       THEN pc' = "done" /\ UNCHANGED now
       ELSE pc' = "locked" /\ now' = clock
    /\ UNCHANGED <<MAX_SETASKFOR_SZ, mapNodeAskForState, mapInvRequests, invRequestsWorkQueue, fHasWork,
                   fStopThread, wakeAt, clock, nConnects, mapAskFor,
                   script, everAsked, everAnnounced, firstOffer, lastBound, requestedAt, found>>

\* Faulty variant: entries are processed whether due or not, as long as the
\* clock has not reached them twice over.
LoopCondition_Early ==
    invRequestsWorkQueue # <<>> /\ invRequestsWorkQueue[1].first <= now + REQUEST_TIMEOUT

\* while (!invRequestsWorkQueue.empty() && begin()->first <= now) { ... }
LoopCondition ==
    invRequestsWorkQueue # <<>> /\ invRequestsWorkQueue[1].first <= now

WorkerProcess ==
    /\ pc = "locked"
    /\ LoopCondition
    /\ UNCHANGED script
    /\ IF ProcessHead(Cur, now).ok
       THEN /\ Commit(ProcessHead(Cur, now))
            /\ lastBound' =
                  [n \in DOMAIN lastBound |->
                      IF n \in FetchedFrom(ProcessHead(Cur, now))
                      THEN [lastBound[n] EXCEPT !.used = TRUE]
                      ELSE lastBound[n]]
            /\ UNCHANGED <<MAX_SETASKFOR_SZ, fStopThread, pc, now, wakeAt, clock, nConnects>>
       ELSE Crash

\* The loop is over: timeToNext is computed, the lock released (`now` goes
\* out of scope), and the thread goes to wait(), to timed_wait() or round
\* again.
WorkerRelease ==
    /\ pc = "locked"
    /\ ~LoopCondition
    /\ now' = 0
    /\ IF invRequestsWorkQueue = <<>>
       THEN pc' = "wait" /\ UNCHANGED wakeAt
       ELSE IF invRequestsWorkQueue[1].first - clock > 0
            THEN pc' = "timed_wait" /\ wakeAt' = invRequestsWorkQueue[1].first
            ELSE pc' = "loop" /\ UNCHANGED wakeAt
    /\ UNCHANGED <<MAX_SETASKFOR_SZ, mapNodeAskForState, mapInvRequests, invRequestsWorkQueue, fHasWork,
                   fStopThread, clock, nConnects, mapAskFor,
                   script, everAsked, everAnnounced, firstOffer, lastBound, requestedAt, found>>

\* condInvRequests.wait() returns once notified.
WorkerWake ==
    /\ pc = "wait"
    /\ fHasWork
    /\ fHasWork' = FALSE
    /\ pc' = "loop"
    /\ UNCHANGED <<MAX_SETASKFOR_SZ, mapNodeAskForState, mapInvRequests, invRequestsWorkQueue,
                   fStopThread, now, wakeAt, clock, nConnects, mapAskFor,
                   script, everAsked, everAnnounced, firstOffer, lastBound, requestedAt, found>>

\* condInvRequests.timed_wait() returns once notified or when the time is up.
WorkerTimedWake ==
    /\ pc = "timed_wait"
    /\ fHasWork \/ clock >= wakeAt
    /\ fHasWork' = FALSE
    /\ wakeAt' = 0
    /\ pc' = "loop"
    /\ UNCHANGED <<MAX_SETASKFOR_SZ, mapNodeAskForState, mapInvRequests, invRequestsWorkQueue,
                   fStopThread, now, clock, nConnects, mapAskFor,
                   script, everAsked, everAnnounced, firstOffer, lastBound, requestedAt, found>>

\* GetTimeMicros() moves on.
Tick ==
    /\ Running
    /\ clock < MaxTime
    /\ clock' = clock + 1
    /\ UNCHANGED <<MAX_SETASKFOR_SZ, mapNodeAskForState, mapInvRequests, invRequestsWorkQueue, fHasWork,
                   fStopThread, pc, now, wakeAt, nConnects, mapAskFor,
                   script, everAsked, everAnnounced, firstOffer, lastBound, requestedAt, found>>

Next ==
    \/ \E nodeid \in FairNodeIds : InitializeNode(nodeid)
    \/ \E nodeid \in FairNodeIds : FinalizeNode(nodeid)
    \/ \E nodeid \in FairNodeIds, node \in Handles, inv \in Invs : AskFor(nodeid, node, inv)
    \/ \E inv \in Invs : Completed(inv)
    \/ StartThreads
    \/ WorkerIterate
    \/ WorkerProcess
    \/ WorkerRelease
    \/ WorkerWake
    \/ WorkerTimedWake
    \/ Tick

Spec == Init /\ [][Next]_vars

\* The same with StopThreads.
NextStop == Next \/ StopThreads
SpecStop == Init /\ [][NextStop]_vars

\* ThreadHandleAskFor is a thread: whatever step it can take it takes in
\* the end (every handler gives the lock back), and time passes.
\* Weak fairness of WorkerProcess, with what enables the step written out:
\* whenever the worker holds the lock and an entry is due, the step can be
\* taken and changes the state (it erases the entry at begin(), or aborts).
WorkerProcessFair ==
    []<>~(pc = "locked" /\ LoopCondition) \/ []<><<WorkerProcess>>_vars

WorkerFairness ==
    /\ WF_vars(WorkerIterate)
    /\ WorkerProcessFair
    /\ WF_vars(WorkerRelease)
    /\ WF_vars(WorkerWake)
    /\ WF_vars(WorkerTimedWake)
    /\ WF_vars(Tick)

\* The module with fewer nodes, under that fairness; the callers are under no
\* obligation to call.
NextFair ==
    \/ \E nodeid \in FairNodeIds : InitializeNode(nodeid)
    \/ \E nodeid \in FairNodeIds : FinalizeNode(nodeid)
    \/ \E nodeid \in FairNodeIds, node \in Handles, inv \in FairInvs : AskFor(nodeid, node, inv)
    \/ \E inv \in FairInvs : Completed(inv)
    \/ StartThreads
    \/ WorkerIterate
    \/ WorkerProcess
    \/ WorkerRelease
    \/ WorkerWake
    \/ WorkerTimedWake
    \/ Tick
SpecFair == Init /\ [][NextFair]_vars /\ WorkerFairness

\* The same with StopThreads.
NextStopFair == NextFair \/ StopThreads
SpecStopFair == Init /\ [][NextStopFair]_vars /\ WorkerFairness

\* The module with fewer items, the history of each being kept.
HistInvs == 1 .. HistMaxInv
InitHist ==
    /\ MAX_SETASKFOR_SZ \in 0 .. MaxSetAskFor
    /\ mapNodeAskForState = EmptyMap
    /\ mapInvRequests = EmptyMap
    /\ invRequestsWorkQueue = <<>>
    /\ fHasWork = FALSE
    /\ fStopThread = FALSE
    /\ pc = "unstarted"
    /\ now = 0
    /\ wakeAt = 0
    /\ clock = 1
    /\ nConnects = 0
    /\ mapAskFor = [inv \in Invs |-> <<>>]
    /\ script = <<>>
    /\ everAsked = [inv \in HistInvs |-> {}]
    /\ everAnnounced = [inv \in HistInvs |-> {}]
    /\ firstOffer = [inv \in HistInvs |-> NoOffer]
    /\ lastBound = EmptyMap
    /\ requestedAt = [inv \in HistInvs |-> <<>>]
    /\ found = EmptyMap
NextHist ==
    \/ \E nodeid \in NodeIds : InitializeNode(nodeid)
    \/ \E nodeid \in NodeIds : FinalizeNode(nodeid)
    \/ \E nodeid \in NodeIds, node \in Handles, inv \in HistInvs : AskFor(nodeid, node, inv)
    \/ \E inv \in HistInvs : Completed(inv)
    \/ StartThreads
    \/ WorkerIterate
    \/ WorkerProcess
    \/ WorkerRelease
    \/ WorkerWake
    \/ WorkerTimedWake
    \/ Tick
SpecHist == InitHist /\ [][NextHist]_vars

\* Late arrival: node 1 connects and announces the item, the item is
\* completed; node 2 connects and announces the item, the item is completed
\* again.  The callers make these calls and no other; the worker is started
\* at some point and runs as it can.
LateArrival(inv) ==
    << [op |-> "InitializeNode", nodeid |-> 1, inv |-> 0],
       [op |-> "AskFor", nodeid |-> 1, inv |-> inv],
       [op |-> "Completed", nodeid |-> 0, inv |-> inv],
       [op |-> "InitializeNode", nodeid |-> 2, inv |-> 0],
       [op |-> "AskFor", nodeid |-> 2, inv |-> inv],
       [op |-> "Completed", nodeid |-> 0, inv |-> inv],
       Over >>
InitLate ==
    /\ MAX_SETASKFOR_SZ \in 0 .. MaxSetAskFor
    /\ mapNodeAskForState = EmptyMap
    /\ mapInvRequests = EmptyMap
    /\ invRequestsWorkQueue = <<>>
    /\ fHasWork = FALSE
    /\ fStopThread = FALSE
    /\ pc = "unstarted"
    /\ now = 0
    /\ wakeAt = 0
    /\ clock = 1
    /\ nConnects = 0
    /\ mapAskFor = [inv \in Invs |-> <<>>]
    /\ script \in {LateArrival(inv) : inv \in Invs}
    /\ everAsked = [inv \in Invs |-> {}]
    /\ everAnnounced = [inv \in Invs |-> {}]
    /\ firstOffer = EmptyMap
    /\ lastBound = EmptyMap
    /\ requestedAt = EmptyMap
    /\ found = EmptyMap
NextLate ==
    \/ \E nodeid \in NodeIds : InitializeNode(nodeid)
    \/ \E nodeid \in NodeIds, node \in Handles, inv \in Invs : AskFor(nodeid, node, inv)
    \/ \E inv \in Invs : Completed(inv)
    \/ StartThreads
    \/ WorkerIterate
    \/ WorkerProcess
    \/ WorkerRelease
    \/ WorkerWake
    \/ WorkerTimedWake
    \/ Tick
SpecLate == InitLate /\ [][NextLate]_vars

\* The module with a choice of CNode pointers in AskFor, the last call of
\* AskFor for each node being kept.
BindHandles == 1 .. MaxHandle
BindNodeIds == 0 .. BindMaxNodeId
BindInvs == 1 .. BindMaxInv
InitBind ==
    /\ MAX_SETASKFOR_SZ \in 0 .. MaxSetAskFor
    /\ mapNodeAskForState = EmptyMap
    /\ mapInvRequests = EmptyMap
    /\ invRequestsWorkQueue = <<>>
    /\ fHasWork = FALSE
    /\ fStopThread = FALSE
    /\ pc = "unstarted"
    /\ now = 0
    /\ wakeAt = 0
    /\ clock = 1
    /\ nConnects = 0
    /\ mapAskFor = [inv \in Invs |-> <<>>]
    /\ script = <<>>
    /\ everAsked = EmptyMap
    /\ everAnnounced = EmptyMap
    /\ firstOffer = EmptyMap
    /\ lastBound = [n \in BindNodeIds |-> NoBinding]
    /\ requestedAt = EmptyMap
    /\ found = EmptyMap
NextBind ==
    \/ \E nodeid \in BindNodeIds : InitializeNode(nodeid)
    \/ \E nodeid \in BindNodeIds : FinalizeNode(nodeid)
    \/ \E nodeid \in BindNodeIds, node \in BindHandles, inv \in BindInvs :
          AskFor(nodeid, node, inv)
    \/ \E inv \in BindInvs : Completed(inv)
    \/ StartThreads
    \/ WorkerIterate
    \/ WorkerProcess
    \/ WorkerRelease
    \/ WorkerWake
    \/ WorkerTimedWake
    \/ Tick
SpecBind == InitBind /\ [][NextBind]_vars

\* The module with fewer nodes, what InitializeNode found being kept for
\* each node.
InitConn ==
    /\ MAX_SETASKFOR_SZ \in 0 .. MaxSetAskFor
    /\ mapNodeAskForState = EmptyMap
    /\ mapInvRequests = EmptyMap
    /\ invRequestsWorkQueue = <<>>
    /\ fHasWork = FALSE
    /\ fStopThread = FALSE
    /\ pc = "unstarted"
    /\ now = 0
    /\ wakeAt = 0
    /\ clock = 1
    /\ nConnects = 0
    /\ mapAskFor = [inv \in Invs |-> <<>>]
    /\ script = <<>>
    /\ everAsked = EmptyMap
    /\ everAnnounced = EmptyMap
    /\ firstOffer = EmptyMap
    /\ lastBound = EmptyMap
    /\ requestedAt = EmptyMap
    /\ found = [n \in FairNodeIds |-> NewNodeState]
SpecConn == InitConn /\ [][NextFair]_vars

\* ---------------------------------------------------------------- views
Registered == DOMAIN mapNodeAskForState
Rows == DOMAIN mapInvRequests
\* positions of the work queue entries of an item
EntriesOf(inv) ==
    {k \in 1 .. Len(invRequestsWorkQueue) : invRequestsWorkQueue[k].second = inv}
\* a getdata for the item was issued in this step
Fetched(inv) == Len(mapAskFor'[inv]) = Len(mapAskFor[inv]) + 1

\* the item is being requested from the node: the last getdata for it went
\* to the node, which is still connected
InFlight(inv, nodeid) ==
    /\ inv \in Rows
    /\ mapInvRequests[inv].beingRequestedFrom = nodeid
    /\ mapAskFor[inv] # <<>>
    /\ ~LastOf(mapAskFor[inv]).gone
\* the work queue has an entry (0, inv)
DueAtOnce(inv) ==
    \E k \in EntriesOf(inv) : invRequestsWorkQueue[k].first = 0

\* Every iterator kept in a request is end() or names an entry of the queue:
\* erase(workQueueIter) never sees an invalid iterator.
IteratorsValid ==
    \A inv \in Rows : mapInvRequests[inv].workQueueIter # Dangling

\* ------------------------------------------------------------------- C1
\* C1: the peer registry and the request table are mutually consistent: for
\* every registered node and item, the item is in the node's setAskFor iff a
\* request for the item exists and the node is among its nodes; and every
\* node of any request is registered.
C1_RegistryConsistent ==
    /\ \A p \in Registered, inv \in Invs :
          (inv \in mapNodeAskForState[p].setAskFor)
             <=> (inv \in Rows /\ p \in mapInvRequests[inv].nodes)
    /\ \A inv \in Rows : mapInvRequests[inv].nodes \subseteq Registered

\* A request that was retried, with a candidate left and a node that has
\* disconnected, after the worker released the lock.
C1_Witness ==
    /\ pc \in {"wait", "timed_wait", "loop"}
    /\ \E inv \in Rows :
          /\ Len(mapAskFor[inv]) >= 2
          /\ mapInvRequests[inv].nodes # {}
          /\ \E k \in 1 .. Len(mapAskFor[inv]) : mapAskFor[inv][k].gone

\* ------------------------------------------------------------------- C2
\* C2: for every request, notRequestedFrom is a subset of nodes, and the
\* node in flight, when there is one, is not in notRequestedFrom and is in
\* nodes.  A node is in flight when beingRequestedFrom names it (the field is
\* not 0), and also, which covers node id 0, when the last getdata of the
\* request went to it and it has not disconnected since: then
\* beingRequestedFrom is that node.
C2_UntriedSubset ==
    \A inv \in Rows :
        LET row == mapInvRequests[inv]
        IN  /\ row.notRequestedFrom \subseteq row.nodes
            /\ row.beingRequestedFrom # 0 =>
                  /\ row.beingRequestedFrom \notin row.notRequestedFrom
                  /\ row.beingRequestedFrom \in row.nodes
            /\ (mapAskFor[inv] # <<>> /\ ~LastOf(mapAskFor[inv]).gone) =>
                  /\ row.beingRequestedFrom = LastOf(mapAskFor[inv]).node
                  /\ row.beingRequestedFrom \notin row.notRequestedFrom
                  /\ row.beingRequestedFrom \in row.nodes

\* A request in flight to a node while another node is still untried.
C2_Witness ==
    \E inv \in Rows :
        /\ mapAskFor[inv] # <<>>
        /\ ~LastOf(mapAskFor[inv]).gone
        /\ mapInvRequests[inv].beingRequestedFrom = LastOf(mapAskFor[inv]).node
        /\ mapInvRequests[inv].notRequestedFrom # {}
        /\ pc # "locked"

\* ------------------------------------------------------------------- C3
\* C3: the work queue never holds more than one entry for the same item, and
\* a request's workQueueIter is not end() iff the item has exactly one queue
\* entry, which is the entry the iterator names and carries the item.
C3_OneEntryPerItem ==
    /\ \A inv \in Invs : Cardinality(EntriesOf(inv)) <= 1
    /\ \A inv \in Rows :
          LET it == mapInvRequests[inv].workQueueIter
          IN  /\ (it # End) <=> (Cardinality(EntriesOf(inv)) = 1)
              /\ it # End => EntriesOf(inv) = {it}

\* A request whose entry was replaced on a retry, and one whose entry was
\* replaced when the node in flight disconnected.
C3_Witness ==
    /\ pc # "locked"
    /\ \E inv \in Rows :
          /\ Len(mapAskFor[inv]) >= 2
          /\ mapInvRequests[inv].workQueueIter # End
          /\ LastOf(mapAskFor[inv]).gone

\* ------------------------------------------------------------------- C4
\* C4 as stated: at any instant at most one node has an unanswered getdata
\* for an item, a getdata being unanswered from when it is issued until the
\* item is completed or forgotten (here: over the nodes still connected).
C4_AtMostOneUnanswered ==
    \A inv \in Invs :
        Cardinality({k \in 1 .. Len(mapAskFor[inv]) : ~mapAskFor[inv][k].gone}) <= 1

\* C4 amended: at any instant at most one connected node has an unanswered
\* getdata for an item whose retry deadline has not passed; the nodes asked
\* before have timed out (and may still answer).
C4_AtMostOneWithinDeadline ==
    \A inv \in Invs :
        Cardinality({k \in 1 .. Len(mapAskFor[inv]) :
                        /\ ~mapAskFor[inv][k].gone
                        /\ mapAskFor[inv][k].deadline > clock}) <= 1

\* Two connected nodes were asked for the item, the later one within its
\* deadline.
C4_Witness ==
    \E inv \in Rows :
        /\ Len(mapAskFor[inv]) = 2
        /\ ~mapAskFor[inv][1].gone
        /\ ~mapAskFor[inv][2].gone
        /\ mapAskFor[inv][1].deadline <= clock
        /\ mapAskFor[inv][2].deadline > clock

\* ------------------------------------------------------------------- C5
\* C5: Completed(inv), whoever sent the item, when a request for it exists
\* removes the item from the setAskFor of every node, removes its work queue
\* entry and erases the request; after that a getdata for the item is issued
\* only once the item has a request again, and only AskFor creates one.
C5_CompletedForgets ==
    [][\A inv \in Invs :
          /\ (inv \in Rows /\ Completed(inv)) =>
                /\ inv \notin Rows'
                /\ \A p \in Registered' : inv \notin mapNodeAskForState'[p].setAskFor
                /\ EntriesOf(inv)' = {}
                /\ Registered' = Registered
          /\ Fetched(inv) => inv \in Rows
          /\ (inv \notin Rows /\ inv \in Rows') =>
                \E nodeid \in NodeIds, node \in Handles : AskFor(nodeid, node, inv)
      ]_vars

\* The worker sleeps until the deadline of a request that is no longer
\* there: the item was completed while it was in flight.
C5_Witness ==
    /\ pc = "timed_wait"
    /\ Rows = {}
    /\ invRequestsWorkQueue = <<>>
    /\ \E p \in Registered : mapNodeAskForState[p].node # NULL

\* ------------------------------------------------------------------- C6
\* C6: the setAskFor of a registered node never holds more than
\* MAX_SETASKFOR_SZ items.
C6_SetAskForBounded ==
    \A p \in Registered :
        Cardinality(mapNodeAskForState[p].setAskFor) <= MAX_SETASKFOR_SZ

\* ------------------------------------------------------------------- C7
\* C7 as stated: whenever the lock is free, every request has a node.
C7_NoEmptyCandidates ==
    pc # "locked" => \A inv \in Rows : mapInvRequests[inv].nodes # {}

\* C7 amended: a request whose nodes are empty (its last node disconnected)
\* stays in the table, with no untried node, no node in flight and its work
\* queue entry at 0, until the worker visits it.
C7_EmptyCandidatesDueAtOnce ==
    \A inv \in Rows :
        LET row == mapInvRequests[inv]
        IN  row.nodes = {} =>
               /\ row.notRequestedFrom = {}
               /\ row.beingRequestedFrom = 0
               /\ row.workQueueIter \in 1 .. Len(invRequestsWorkQueue)
               /\ invRequestsWorkQueue[row.workQueueIter].first = 0
               /\ invRequestsWorkQueue[row.workQueueIter].second = inv

\* The node in flight was the last node of the request and disconnected.
C7_Witness ==
    /\ pc # "locked"
    /\ \E inv \in Rows :
          /\ mapInvRequests[inv].nodes = {}
          /\ mapAskFor[inv] # <<>>
          /\ LastOf(mapAskFor[inv]).gone

\* ------------------------------------------------------------------- C8
\* C8: when the worker processes the entry of a request at its retry
\* deadline (the entry is not at 0) and notRequestedFrom is not empty, it
\* issues a getdata to the smallest node of notRequestedFrom through that
\* node's CNode, removes the node from notRequestedFrom, overwrites
\* beingRequestedFrom with it and replaces the queue entry by one at
\* now + REQUEST_TIMEOUT; the node asked before is not in notRequestedFrom.
C8_RetryPicksSmallest ==
    [][\A inv \in Invs :
          (/\ pc = "locked"
           /\ LoopCondition
           /\ invRequestsWorkQueue[1].second = inv
           /\ invRequestsWorkQueue[1].first # 0
           /\ inv \in Rows
           /\ mapInvRequests[inv].notRequestedFrom # {}
           /\ WorkerProcess)
          =>
          LET row == mapInvRequests[inv]
              p == Min(row.notRequestedFrom)
          IN  /\ Fetched(inv)
              /\ LastOf(mapAskFor'[inv]).node = p
              /\ LastOf(mapAskFor'[inv]).handle = mapNodeAskForState[p].node
              /\ inv \in Rows'
              /\ mapInvRequests'[inv].notRequestedFrom = row.notRequestedFrom \ {p}
              /\ mapInvRequests'[inv].beingRequestedFrom = p
              /\ row.beingRequestedFrom \notin mapInvRequests'[inv].notRequestedFrom
              /\ mapInvRequests'[inv].nodes = row.nodes
              /\ EntriesOf(inv)' = {mapInvRequests'[inv].workQueueIter}
              /\ invRequestsWorkQueue'[mapInvRequests'[inv].workQueueIter].first
                    = now + REQUEST_TIMEOUT
      ]_vars

\* A retry has happened: the second of two connected nodes was asked after
\* the deadline of the first, and a third is still untried.
C8_Witness ==
    \E inv \in Rows :
        /\ Len(mapAskFor[inv]) = 2
        /\ ~mapAskFor[inv][1].gone
        /\ ~mapAskFor[inv][2].gone
        /\ mapAskFor[inv][1].node < mapAskFor[inv][2].node
        /\ mapAskFor[inv][1].deadline < mapAskFor[inv][2].deadline
        /\ mapInvRequests[inv].beingRequestedFrom = mapAskFor[inv][2].node
        /\ mapInvRequests[inv].notRequestedFrom # {}

\* ------------------------------------------------------------------- C9
\* C9 as stated: while a request exists no node id is picked for it twice,
\* not even when the node disconnects, connects again under the same id and
\* announces the item again.
C9_NeverPickedTwice ==
    \A inv \in Invs :
        \A i, j \in 1 .. Len(mapAskFor[inv]) :
            i < j => mapAskFor[inv][i].node # mapAskFor[inv][j].node

\* C9 amended: while a request exists a node id is picked for it again only
\* after the node with that id has disconnected (and connected and announced
\* the item again): each connection is tried at most once.
C9_OncePerConnection ==
    \A inv \in Invs :
        \A i, j \in 1 .. Len(mapAskFor[inv]) :
            (i < j /\ mapAskFor[inv][i].node = mapAskFor[inv][j].node)
               => mapAskFor[inv][i].gone

\* A node id was picked twice for one request, the second time on a new
\* connection.
C9_Witness ==
    \E inv \in Rows :
        \E i, j \in 1 .. Len(mapAskFor[inv]) :
            /\ i < j
            /\ mapAskFor[inv][i].node = mapAskFor[inv][j].node
            /\ ~mapAskFor[inv][j].gone

\* ------------------------------------------------------------------ C10
\* C10: when the worker processes the due entry of a request whose
\* notRequestedFrom is empty, the request is forgotten (erased, the item
\* removed from the setAskFor of every node, no queue entry left) without a
\* getdata; by then every node of the request has been asked exactly once on
\* its connection and every such getdata has timed out (two announcers: two
\* getdata, two timeouts); and a getdata is only ever issued for an item that
\* has a request with an untried node.
C10_Exhaustion ==
    [][\A inv \in Invs :
          /\ (/\ pc = "locked"
              /\ LoopCondition
              /\ invRequestsWorkQueue[1].second = inv
              /\ inv \in Rows
              /\ mapInvRequests[inv].notRequestedFrom = {}
              /\ WorkerProcess)
             =>
             LET live == {k \in 1 .. Len(mapAskFor[inv]) : ~mapAskFor[inv][k].gone}
             IN  /\ inv \notin Rows'
                 /\ \A p \in Registered' : inv \notin mapNodeAskForState'[p].setAskFor
                 /\ Registered' = Registered
                 /\ EntriesOf(inv)' = {}
                 /\ mapAskFor'[inv] = <<>>
                 /\ {mapAskFor[inv][k].node : k \in live} = mapInvRequests[inv].nodes
                 /\ Cardinality(live) = Cardinality(mapInvRequests[inv].nodes)
                 /\ \A k \in live : mapAskFor[inv][k].deadline <= now
          /\ Fetched(inv) =>
                inv \in Rows /\ mapInvRequests[inv].notRequestedFrom # {}
      ]_vars

\* Two nodes announced the item, both were asked and both timed out: the
\* worker is at the entry of the request and no node is left.
C10_Witness ==
    /\ pc = "locked"
    /\ LoopCondition
    /\ \E inv \in Rows :
          /\ invRequestsWorkQueue[1].second = inv
          /\ invRequestsWorkQueue[1].first # 0
          /\ mapInvRequests[inv].notRequestedFrom = {}
          /\ Cardinality(mapInvRequests[inv].nodes) = 2
          /\ Len(mapAskFor[inv]) = 2
          /\ \A k \in 1 .. 2 : ~mapAskFor[inv][k].gone

\* ------------------------------------------------------------------ C11
\* C11: when the node an item is being requested from disconnects,
\* beingRequestedFrom is cleared, the work queue entry of the item (its retry
\* deadline) is erased and an entry at 0 takes its place, and the worker is
\* notified; the worker on its next pass asks the smallest untried node
\* without waiting for REQUEST_TIMEOUT: an entry at 0 is due in every pass,
\* and the worker does not end a pass while an entry at 0 is in the queue.
C11_DisconnectInFlight ==
    [][\A inv \in Invs :
          /\ \A nodeid \in NodeIds :
                (InFlight(inv, nodeid) /\ FinalizeNode(nodeid)) =>
                   /\ inv \in Rows'
                   /\ mapInvRequests'[inv].beingRequestedFrom = 0
                   /\ LastOf(mapAskFor'[inv]).gone
                   /\ nodeid \notin mapInvRequests'[inv].notRequestedFrom
                   /\ EntriesOf(inv)' = {mapInvRequests'[inv].workQueueIter}
                   /\ DueAtOnce(inv)'
                   /\ fHasWork'
          /\ (/\ pc = "locked"
              /\ DueAtOnce(inv)
              /\ inv \in Rows
              /\ mapInvRequests[inv].notRequestedFrom # {}
              /\ invRequestsWorkQueue[1].second = inv
              /\ WorkerProcess)
             =>
                /\ Fetched(inv)
                /\ LastOf(mapAskFor'[inv]).node = Min(mapInvRequests[inv].notRequestedFrom)
          /\ (pc = "locked" /\ DueAtOnce(inv)) => (LoopCondition /\ ~WorkerRelease)
      ]_vars

\* The node in flight disconnected and the next node was asked before the
\* timeout of the first had passed.
C11_Witness ==
    \E inv \in Rows :
        \E k \in 1 .. Len(mapAskFor[inv]) - 1 :
            /\ mapAskFor[inv][k].gone
            /\ ~mapAskFor[inv][k + 1].gone
            /\ mapAskFor[inv][k + 1].deadline - REQUEST_TIMEOUT < mapAskFor[inv][k].deadline
            /\ InFlight(inv, mapAskFor[inv][k + 1].node)

\* ------------------------------------------------------------------ C12
\* C12: when FinalizeNode(nodeid) returns, the node has no state, and no
\* request has it in nodes, in notRequestedFrom or as the node the item is
\* being requested from (a beingRequestedFrom of 0 reads "no node").
C12_DisconnectPurges ==
    [][\A nodeid \in NodeIds :
          (nodeid \in Registered /\ FinalizeNode(nodeid)) =>
             /\ nodeid \notin Registered'
             /\ \A inv \in Rows' :
                   /\ nodeid \notin mapInvRequests'[inv].nodes
                   /\ nodeid \notin mapInvRequests'[inv].notRequestedFrom
                   /\ nodeid # 0 => mapInvRequests'[inv].beingRequestedFrom # nodeid
                   /\ ~InFlight(inv, nodeid)'
      ]_vars

\* A node an item was being requested from has disconnected, and two
\* requests are still there, each with another node.
C12_Witness ==
    \E nodeid \in NodeIds \ Registered :
        /\ Cardinality(Rows) = 2
        /\ \A inv \in Rows : mapInvRequests[inv].nodes # {}
        /\ \E inv \in Rows :
              /\ mapAskFor[inv] # <<>>
              /\ LastOf(mapAskFor[inv]).node = nodeid
              /\ LastOf(mapAskFor[inv]).gone

\* ------------------------------------------------------------------ C13
\* no work queue entry is due
NoneDue == \A k \in 1 .. Len(invRequestsWorkQueue) : invRequestsWorkQueue[k].first > clock

\* C13: once every node that announced an item has disconnected (the nodes
\* of its request are empty) and the worker runs, the worker gets to the
\* request and forgets it, unless a node announces the item again first:
\* the request and its work queue entry are gone; and a request with no node
\* is never there when no work queue entry is due.
C13_ForgetOnEmptyCandidates ==
    /\ \A inv \in Invs :
          (pc # "unstarted" /\ inv \in Rows /\ mapInvRequests[inv].nodes = {})
             ~> \/ inv \notin Rows /\ EntriesOf(inv) = {}
                \/ inv \in Rows /\ mapInvRequests[inv].nodes # {}
    /\ [](NoneDue => \A inv \in Rows : mapInvRequests[inv].nodes # {})

\* The two nodes that announced the item have disconnected, the second while
\* the item was being requested from it and the worker slept; the request
\* is still there.
C13_Witness ==
    /\ pc \in {"wait", "timed_wait"}
    /\ \E inv \in Rows :
          /\ mapInvRequests[inv].nodes = {}
          /\ Len(mapAskFor[inv]) = 2
          /\ mapAskFor[inv][1].node # mapAskFor[inv][2].node
          /\ \A k \in 1 .. 2 : mapAskFor[inv][k].gone

\* ------------------------------------------------------------------ C14
\* C14: in every state in which the lock is free and for every item,
\* Completed twice leaves what Completed once leaves, and Completed for an
\* item that has no request changes nothing under the lock (node states,
\* requests, work queue), notifies nobody and fails no assert.
C14_CompletedIdempotent ==
    LockFree =>
       \A inv \in Invs :
           LET once == CompletedBody(Cur, inv)
               twice == CompletedBody(once, inv)
           IN  /\ twice = once
               /\ inv \notin DOMAIN once.rq
               /\ inv \notin Rows => once = Cur

\* An item is being requested and has its retry entry in the queue, so that
\* Completed has something to forget, while another item has no request.
C14_Witness ==
    /\ LockFree
    /\ \E inv \in Rows :
          /\ mapAskFor[inv] # <<>>
          /\ EntriesOf(inv) # {}
          /\ CompletedBody(Cur, inv).ok
          /\ CompletedBody(Cur, inv).q # Cur.q
    /\ \E inv \in Invs : inv \notin Rows

\* ------------------------------------------------------------------ C15
\* what an AskFor that is dropped must leave alone: the requests, the work
\* queue, the setAskFor of the node, and no getdata
AskForDropped(nodeid) ==
    /\ mapInvRequests' = mapInvRequests
    /\ invRequestsWorkQueue' = invRequestsWorkQueue
    /\ mapAskFor' = mapAskFor
    /\ nodeid \in Registered'
    /\ mapNodeAskForState'[nodeid].setAskFor = mapNodeAskForState[nodeid].setAskFor

\* C15: an AskFor that hits the bound (the setAskFor of the node is full: it
\* holds MAX_SETASKFOR_SZ items, and the item is not one of them) creates no
\* request, adds the node to no nodes and no notRequestedFrom, inserts
\* nothing into the work queue or into setAskFor, and causes no getdata.
C15_BoundIsNoOp ==
    [][\A nodeid \in NodeIds, inv \in Invs :
          (/\ nodeid \in Registered
           /\ Cardinality(mapNodeAskForState[nodeid].setAskFor) >= MAX_SETASKFOR_SZ
           /\ inv \notin mapNodeAskForState[nodeid].setAskFor
           /\ \E node \in Handles : AskFor(nodeid, node, inv))
          => AskForDropped(nodeid)
      ]_vars

\* What the code does guarantee: an AskFor that finds more than
\* MAX_SETASKFOR_SZ items in setAskFor changes nothing but the CNode kept for
\* the node.
C15_ExceededIsNoOp ==
    [][\A nodeid \in NodeIds, inv \in Invs :
          (/\ nodeid \in Registered
           /\ Cardinality(mapNodeAskForState[nodeid].setAskFor) > MAX_SETASKFOR_SZ
           /\ \E node \in Handles : AskFor(nodeid, node, inv))
          => /\ AskForDropped(nodeid)
             /\ UNCHANGED <<fHasWork, pc, clock>>
      ]_vars

\* ------------------------------------------------------------------ C16
\* C16: for every item, at every point, the nodes a getdata for the item
\* was ever sent to are no more than the nodes that ever announced it (that
\* ever got into the nodes of a request for it): every node ever asked had
\* announced the item.
C16_AskedWithinAnnounced ==
    \A inv \in DOMAIN everAsked :
        /\ Cardinality(everAsked[inv]) <= Cardinality(everAnnounced[inv])
        /\ everAsked[inv] \subseteq everAnnounced[inv]

\* Three nodes announced the item over time, two were asked, and the item
\* has been forgotten in between (its request now is not its first).
C16_Witness ==
    \E inv \in DOMAIN everAsked :
        /\ Cardinality(everAnnounced[inv]) = 3
        /\ Cardinality(everAsked[inv]) = 2
        /\ inv \in Rows
        /\ \E p \in everAsked[inv] : p \notin mapInvRequests[inv].nodes /\ p \in Registered

\* ------------------------------------------------------------------ C17
\* the entries of a queue as pairs, and without the entry of an item
Pairs(q) == [k \in 1 .. Len(q) |-> <<q[k].first, q[k].second>>]
Without(q, inv) == SelectSeq(Pairs(q), LAMBDA e : e[2] # inv)
\* the entry of the item is the last of the entries of its time or earlier
LastOfItsTime(q, inv) ==
    \A k, l \in 1 .. Len(q) :
        (q[k].second = inv /\ k < l) => q[k].first < q[l].first

SecondCompleted(inv) ==
    script = <<[op |-> "Completed", nodeid |-> 0, inv |-> inv], Over>>

\* C18 as stated: in the late arrival, with the worker free to run between
\* any two calls, no getdata for the item goes to a node other than node 1
\* (one getdata in all), and the second Completed changes no state.
C18_LateArrivalOneFetch ==
    [][\A inv \in Invs :
          /\ Fetched(inv) =>
                /\ LastOf(mapAskFor'[inv]).node = 1
                /\ everAsked[inv] = {}
          /\ (SecondCompleted(inv) /\ Completed(inv)) =>
                UNCHANGED <<mapNodeAskForState, mapInvRequests, invRequestsWorkQueue,
                            mapAskFor>>
      ]_vars

\* C18 amended: in the late arrival the first Completed forgets the request,
\* and the AskFor of node 2 starts a new request, with node 2 untried and an
\* entry at 0: the worker, when it runs before the second Completed, sends a
\* getdata to node 2.  No node is asked twice, so at most two getdata are
\* sent in all, one to node 1 before the first Completed and one to node 2
\* between its AskFor and the second Completed.  The second Completed forgets
\* the new request when it is still there, and changes nothing only when it
\* is not; after it there is no request, no queue entry and no getdata.
C18_LateArrivalNewRequest ==
    [][\A inv \in Invs :
          /\ Fetched(inv) =>
                /\ LastOf(mapAskFor'[inv]).node \notin everAsked[inv]
                /\ LastOf(mapAskFor'[inv]).node \in {1, 2}
                /\ LastOf(mapAskFor'[inv]).node = 2 <=> SecondCompleted(inv)
                /\ LastOf(mapAskFor'[inv]).node = 1 => Len(script) = 5
          /\ (inv \notin Rows /\ inv \in Rows') =>
                /\ mapInvRequests'[inv].notRequestedFrom = mapInvRequests'[inv].nodes
                /\ DueAtOnce(inv)'
                /\ fHasWork'
          /\ (SecondCompleted(inv) /\ Completed(inv)) =>
                /\ inv \notin Rows'
                /\ invRequestsWorkQueue' = <<>>
                /\ mapNodeAskForState'[2].setAskFor = {}
                /\ inv \notin Rows <=>
                      UNCHANGED <<mapNodeAskForState, mapInvRequests,
                                  invRequestsWorkQueue, mapAskFor>>
          /\ script = <<Over>> => (Rows = {} /\ ~Fetched(inv))
      ]_vars

\* The late arrival is over and two getdata were sent for the item, one to
\* node 1 and one to node 2.
C18_Witness ==
    /\ script = <<Over>>
    /\ \E inv \in Invs : everAsked[inv] = {1, 2}

C21_UnknownPeerAsserts ==
    [][/\ \A nodeid \in NodeIds :
             (/\ nodeid \notin Registered
              /\ \/ FinalizeNode(nodeid)
                 \/ \E node \in Handles, inv \in Invs : AskFor(nodeid, node, inv))
             =>
                /\ pc' = "aborted"
                /\ Registered' = {}
                /\ Rows' = {}
                /\ invRequestsWorkQueue' = <<>>
                /\ \A inv \in Invs : mapAskFor'[inv] = <<>>
       /\ (pc # "aborted" /\ pc' = "aborted") =>
             \E nodeid \in NodeIds \ Registered :
                 \/ FinalizeNode(nodeid)
                 \/ \E node \in Handles, inv \in Invs : AskFor(nodeid, node, inv)
       /\ pc # "aborted"
      ]_vars

\* An assert has failed.
C21_Witness ==
    pc = "aborted"

\* ------------------------------------------------------------------ C22
\* the request of the item is as AskFor of the node creates it: the node is
\* its only node and untried, no node is being asked, no getdata has gone
\* out, and its one work queue entry is at 0
FreshRequest(s, inv, nodeid) ==
    /\ inv \in DOMAIN s.rq
    /\ s.rq[inv].nodes = {nodeid}
    /\ s.rq[inv].notRequestedFrom = {nodeid}
    /\ s.rq[inv].beingRequestedFrom = 0
    /\ s.log[inv] = <<>>
    /\ inv \in s.ns[nodeid].setAskFor
    /\ \E k \in 1 .. Len(s.q) :
          /\ s.q[k].second = inv
          /\ s.q[k].first = 0
          /\ s.rq[inv].workQueueIter = s.q[k].id
          /\ \A l \in 1 .. Len(s.q) : s.q[l].second = inv => l = k
\* the node already holds more items than AskFor lets it take another
OverBound(s, nodeid) == Cardinality(s.ns[nodeid].setAskFor) > MAX_SETASKFOR_SZ

\* the requests, less their iterators
Requests(rq) == [inv \in DOMAIN rq |-> [rq[inv] EXCEPT !.workQueueIter = End]]

\* C22 as stated: after an item is forgotten, the next AskFor for it by any
\* node that has a state creates a fresh request; so does every AskFor for
\* an item that has no request.
C22_ForgetRestores ==
    /\ [](LockFree =>
            \A inv \in Rows, nodeid \in Registered, node \in Handles :
                FreshRequest(AskForBody(CompletedBody(Cur, inv), nodeid, node, inv),
                             inv, nodeid))
    /\ [][\A inv \in Invs, nodeid \in NodeIds :
             (/\ inv \notin Rows
              /\ nodeid \in Registered
              /\ \E node \in Handles : AskFor(nodeid, node, inv))
             => FreshRequest(Cur', inv, nodeid)
         ]_vars

\* C22 amended: after an item is forgotten (by Completed, or by the worker
\* at a request with no untried node), and whenever an item has no request,
\* an AskFor for it by a node that has a state and does not hold more than
\* MAX_SETASKFOR_SZ items creates a fresh request, whether or not the node
\* was asked for the item before; an AskFor by a node that holds more is
\* dropped, and the item stays without a request.
C22_ForgetRestoresWithinBound ==
    /\ [](LockFree =>
            \A inv \in Rows, nodeid \in Registered, node \in Handles :
                LET forgot == CompletedBody(Cur, inv)
                    asked == AskForBody(forgot, nodeid, node, inv)
                IN  /\ inv \notin DOMAIN forgot.rq
                    /\ IF OverBound(forgot, nodeid)
                       THEN asked = [forgot EXCEPT !.ns[nodeid].node = node]
                       ELSE FreshRequest(asked, inv, nodeid))
    /\ [][\A inv \in Invs :
             /\ \A nodeid \in NodeIds :
                   (/\ inv \notin Rows
                    /\ nodeid \in Registered
                    /\ \E node \in Handles : AskFor(nodeid, node, inv))
                   => IF OverBound(Cur, nodeid)
                      THEN inv \notin Rows' /\ AskForDropped(nodeid)
                      ELSE FreshRequest(Cur', inv, nodeid)
             /\ (/\ pc = "locked"
                 /\ LoopCondition
                 /\ invRequestsWorkQueue[1].second = inv
                 /\ inv \in Rows
                 /\ mapInvRequests[inv].notRequestedFrom = {}
                 /\ WorkerProcess)
                =>
                   /\ Requests(Cur'.rq) = Requests(CompletedBody(Cur, inv).rq)
                   /\ Cur'.ns = CompletedBody(Cur, inv).ns
                   /\ Pairs(Cur'.q) = Pairs(CompletedBody(Cur, inv).q)
                   /\ Cur'.log = CompletedBody(Cur, inv).log
         ]_vars

\* A node was asked for an item, is still connected and holds no more than
\* the item: when the item is forgotten now and the node announces it again,
\* the request is fresh and the node untried again.
C22_Witness ==
    /\ LockFree
    /\ \E inv \in Rows, nodeid \in Registered :
          /\ \E k \in 1 .. Len(mapAskFor[inv]) :
                mapAskFor[inv][k].node = nodeid /\ ~mapAskFor[inv][k].gone
          /\ nodeid \notin mapInvRequests[inv].notRequestedFrom
          /\ FreshRequest(AskForBody(CompletedBody(Cur, inv), nodeid, 1, inv), inv, nodeid)

\* ------------------------------------------------------------------ C23
\* a getdata for the item is outstanding: the last one went to a node that is
\* still connected
Outstanding(inv) == mapAskFor[inv] # <<>> /\ ~LastOf(mapAskFor[inv]).gone

\* C23 as stated: whenever the lock is free, an item has a work queue entry
\* iff either it has a request and was never tried (no getdata went out
\* since the request was created) and the entry is at 0, or a getdata for it
\* is outstanding, to the node it is being requested from, and the entry is
\* at the retry deadline of that getdata.
C23_EntryIffUntriedOrInFlight ==
    pc # "locked" =>
       \A inv \in Invs :
           EntriesOf(inv) # {} <=>
              /\ inv \in Rows
              /\ \/ mapAskFor[inv] = <<>> /\ DueAtOnce(inv)
                 \/ /\ Outstanding(inv)
                    /\ InFlight(inv, LastOf(mapAskFor[inv]).node)
                    /\ \E k \in EntriesOf(inv) :
                          invRequestsWorkQueue[k].first = LastOf(mapAskFor[inv]).deadline

\* C23 amended: in every state an item has a work queue entry iff it has a
\* request, and the entry is at 0 when no getdata is outstanding (the item
\* was never tried, or the node it was being requested from disconnected:
\* beingRequestedFrom is 0), and at the retry deadline of the outstanding
\* getdata otherwise (beingRequestedFrom is the node it went to).
C23_EntryAtZeroOrDeadline ==
    \A inv \in Invs :
        /\ EntriesOf(inv) # {} <=> inv \in Rows
        /\ inv \in Rows =>
              \A k \in EntriesOf(inv) :
                  IF Outstanding(inv)
                  THEN /\ InFlight(inv, LastOf(mapAskFor[inv]).node)
                       /\ invRequestsWorkQueue[k].first = LastOf(mapAskFor[inv]).deadline
                       /\ invRequestsWorkQueue[k].first # 0
                  ELSE /\ invRequestsWorkQueue[k].first = 0
                       /\ mapInvRequests[inv].beingRequestedFrom = 0

\* The lock is free; one item was being requested from a node that has
\* disconnected, and has an untried node and its entry at 0; another item
\* is being requested and has its entry at the deadline.
C23_Witness ==
    /\ pc # "locked"
    /\ \E inv \in Rows :
          /\ mapAskFor[inv] # <<>>
          /\ LastOf(mapAskFor[inv]).gone
          /\ DueAtOnce(inv)
          /\ mapInvRequests[inv].notRequestedFrom # {}
    /\ \E inv \in Rows :
          /\ Outstanding(inv)
          /\ ~DueAtOnce(inv)

\* ------------------------------------------------------------------ C24
\* C24: AskFor for an item that has no request, by a node that has a state
\* and holds fewer than MAX_SETASKFOR_SZ items, creates the request with
\* the node as its only node, untried, and no node being asked; inserts one
\* work queue entry, (0, item), and no other; adds the item to the setAskFor
\* of the node; notifies the worker; and leaves the other requests and the
\* other nodes as they are, and sends no getdata.
C24_FirstAnnounce ==
    [][\A inv \in Invs, nodeid \in NodeIds, node \in Handles :
          (/\ inv \notin Rows
           /\ nodeid \in Registered
           /\ Cardinality(mapNodeAskForState[nodeid].setAskFor) < MAX_SETASKFOR_SZ
           /\ AskFor(nodeid, node, inv))
          =>
             /\ FreshRequest(Cur', inv, nodeid)
             /\ Rows' = Rows \cup {inv}
             /\ \A other \in Rows : Requests(mapInvRequests')[other] = Requests(mapInvRequests)[other]
             /\ Len(invRequestsWorkQueue') = Len(invRequestsWorkQueue) + 1
             /\ Without(invRequestsWorkQueue', inv) = Pairs(invRequestsWorkQueue)
             /\ mapNodeAskForState' =
                   [mapNodeAskForState EXCEPT
                       ![nodeid] = [setAskFor |-> @.setAskFor \cup {inv}, node |-> node]]
             /\ fHasWork'
             /\ mapAskFor' = mapAskFor
             /\ pc' = pc
      ]_vars

\* With MAX_SETASKFOR_SZ = 1, a node that held no item has announced an
\* item: the request is fresh, the worker is notified, and the work queue
\* holds the entry at 0 next to the entry of another item.
C24_Witness ==
    /\ MAX_SETASKFOR_SZ = 1
    /\ fHasWork
    /\ Len(invRequestsWorkQueue) = 2
    /\ \E inv \in Rows, nodeid \in Registered :
          /\ FreshRequest(Cur, inv, nodeid)
          /\ mapNodeAskForState[nodeid].setAskFor = {inv}

\* ------------------------------------------------------------------ C25
\* what an AskFor of the node for an item that has a request does to the
\* request when it is not dropped, s before and r after: the node joins
\* nodes and, when it was not in nodes, notRequestedFrom; beingRequestedFrom,
\* the work queue and the getdata sent stay as they are
JoinsRequest(s, r, inv, nodeid) ==
    /\ inv \in DOMAIN r.rq
    /\ r.rq[inv].nodes = s.rq[inv].nodes \cup {nodeid}
    /\ r.rq[inv].notRequestedFrom =
          IF nodeid \in s.rq[inv].nodes
          THEN s.rq[inv].notRequestedFrom
          ELSE s.rq[inv].notRequestedFrom \cup {nodeid}
    /\ r.rq[inv].beingRequestedFrom = s.rq[inv].beingRequestedFrom
    /\ r.rq[inv].workQueueIter = s.rq[inv].workQueueIter
    /\ r.q = s.q
    /\ r.log = s.log
\* a getdata for an item goes out while another is outstanding only in a
\* pass of the worker that began at or after the deadline of that one
RetryAfterDeadline ==
    \A inv \in Invs :
        (Fetched(inv) /\ Outstanding(inv)) => LastOf(mapAskFor[inv]).deadline <= now

\* C25 as stated: whenever the lock is free, AskFor for an item that has a
\* request, by any node that has a state, adds the node to nodes and, only
\* when it was not in nodes, to notRequestedFrom, and leaves
\* beingRequestedFrom and the work queue as they are; the node that
\* announced is asked only when the deadline of the getdata outstanding has
\* come or its node has disconnected.
C25_AnnounceJoins ==
    /\ [](LockFree =>
            \A inv \in Rows, nodeid \in Registered, node \in Handles :
                JoinsRequest(Cur, AskForBody(Cur, nodeid, node, inv), inv, nodeid))
    /\ [][RetryAfterDeadline]_vars

\* C25 amended: the same for every AskFor that is not dropped (the node
\* holds no more than MAX_SETASKFOR_SZ items), which also adds the item to
\* the setAskFor of the node; an AskFor that is dropped leaves the request as
\* it is, the node not added.  Either way the other requests stay as they
\* are and the worker is not notified.
C25_AnnounceJoinsWithinBound ==
    /\ [](LockFree =>
            \A inv \in Rows, nodeid \in Registered, node \in Handles :
                LET r == AskForBody(Cur, nodeid, node, inv)
                IN  /\ IF OverBound(Cur, nodeid)
                       THEN r = [Cur EXCEPT !.ns[nodeid].node = node]
                       ELSE /\ JoinsRequest(Cur, r, inv, nodeid)
                            /\ r.ns = [Cur.ns EXCEPT
                                          ![nodeid] = [setAskFor |-> @.setAskFor \cup {inv},
                                                       node |-> node]]
                    /\ DOMAIN r.rq = Rows
                    /\ \A other \in Rows \ {inv} : r.rq[other] = Cur.rq[other]
                    /\ ~r.notify
                    /\ r.ok)
    /\ [][RetryAfterDeadline]_vars

\* An item is being requested from a node, and a node with a smaller id is
\* untried: it announced the item after the other was picked, and waits for
\* the deadline in the work queue.
C25_Witness ==
    /\ pc # "locked"
    /\ \E inv \in Rows :
          /\ Outstanding(inv)
          /\ ~DueAtOnce(inv)
          /\ \E nodeid \in mapInvRequests[inv].notRequestedFrom :
                nodeid < LastOf(mapAskFor[inv]).node

\* ------------------------------------------------------------------ C26
\* C26: for every item, the nodes that were in notRequestedFrom when the
\* worker first picked a node for the request, and stayed there until they
\* were picked, are picked in strictly ascending order of node id (the node
\* of the first pick included); those not yet picked are larger than all
\* that were, and still untried.
C26_AscendingAmongFirstOffer ==
    \A inv \in DOMAIN firstOffer :
        LET asked == firstOffer[inv].asked
            left == firstOffer[inv].left
        IN  /\ \A i, j \in 1 .. Len(asked) : i < j => asked[i] < asked[j]
            /\ \A nodeid \in left :
                  /\ \A i \in 1 .. Len(asked) : asked[i] < nodeid
                  /\ inv \in Rows /\ nodeid \in mapInvRequests[inv].notRequestedFrom

\* Two nodes had announced the item when the worker first picked; both have
\* been picked, and between them a node that announced later.
C26_Witness ==
    \E inv \in DOMAIN firstOffer :
        /\ Len(firstOffer[inv].asked) = 2
        /\ Len(mapAskFor[inv]) = 3
        /\ mapAskFor[inv][2].node \notin {mapAskFor[inv][1].node, mapAskFor[inv][3].node}
        /\ mapAskFor[inv][3].node = firstOffer[inv].asked[2]

\* ------------------------------------------------------------------ C27
\* the work queue entry of the item is due after the last time the clock
\* of the model shows
BeyondClock(inv) ==
    \E k \in EntriesOf(inv) : invRequestsWorkQueue[k].first > MaxTime

\* C27: while the worker runs and the clock goes on, every request is
\* erased in the end (by Completed, by the worker when no untried node is
\* left at the deadline or when its nodes have disconnected, or with the
\* process on a failed assert), or is being requested with a deadline the
\* clock of the model does not reach; and a request always has a work queue
\* entry for the worker to come back to, or is under the worker's hands.
C27_EveryRequestEnds ==
    /\ \A inv \in Invs :
          (pc # "unstarted" /\ inv \in Rows) ~> (inv \notin Rows \/ BeyondClock(inv))
    /\ [](\A inv \in Rows : EntriesOf(inv) # {})

\* The worker sleeps until the deadline of a request whose nodes have all
\* been asked; the clock has not reached the deadline and will.
C27_Witness ==
    /\ pc = "timed_wait"
    /\ ~fHasWork
    /\ clock < wakeAt
    /\ wakeAt <= MaxTime
    /\ \E inv \in Rows :
          /\ Outstanding(inv)
          /\ mapInvRequests[inv].notRequestedFrom = {}
          /\ Len(mapAskFor[inv]) = 2
          /\ invRequestsWorkQueue[1].second = inv
          /\ invRequestsWorkQueue[1].first = wakeAt

\* ------------------------------------------------------------------ C28
\* C28: every getdata goes out through the CNode passed to the last call of
\* AskFor for the node picked, whatever the item of that call and whether or
\* not the call was dropped, and that call came after the node last
\* connected: never through a CNode kept from before FinalizeNode; and the
\* CNode kept for a node is at all times the one of that call.
C28_FetchThroughLastBound ==
    /\ [][\A inv \in Invs :
             Fetched(inv) =>
                LET sent == LastOf(mapAskFor'[inv])
                IN  sent.node \in DOMAIN lastBound =>
                       /\ sent.handle = lastBound[sent.node].node
                       /\ sent.handle # NULL
                       /\ lastBound'[sent.node].used
         ]_vars
    /\ [](\A n \in DOMAIN lastBound :
             IF n \in Registered
             THEN mapNodeAskForState[n].node = lastBound[n].node
             ELSE lastBound[n] = NoBinding)

\* The last AskFor of a node was dropped, and a getdata has gone to the node
\* since, through the CNode of the dropped call: a retry, the getdata before
\* it having gone to another node through another CNode.
C28_Witness ==
    \E n \in DOMAIN lastBound, inv \in Rows :
        /\ lastBound[n].dropped
        /\ lastBound[n].used
        /\ Len(mapAskFor[inv]) = 2
        /\ Outstanding(inv)
        /\ mapAskFor[inv][2].node = n
        /\ mapAskFor[inv][2].handle = lastBound[n].node
        /\ mapAskFor[inv][1].node # n
        /\ mapAskFor[inv][1].handle # lastBound[n].node

\* ------------------------------------------------------------------ C29
\* C29 as stated: while a request exists, two getdata in a row for its item
\* are at least REQUEST_TIMEOUT apart by the clock (the nNow RequestItem
\* reads for each), unless the node of the earlier one has disconnected.
C29_RetryAfterTimeout ==
    \A inv \in DOMAIN requestedAt :
        \A k \in 1 .. Len(mapAskFor[inv]) - 1 :
            ~mapAskFor[inv][k].gone =>
                requestedAt[inv][k + 1] - requestedAt[inv][k] >= REQUEST_TIMEOUT

\* C29 amended: the worker never sends a getdata before the deadline of the
\* one outstanding, and the deadline is REQUEST_TIMEOUT after the `now` the
\* worker read when it took the lock, which is not after the nNow of the
\* getdata: two getdata in a row are sent in passes whose `now` are at least
\* REQUEST_TIMEOUT apart, the later one at or after the deadline of the
\* earlier, unless the node of the earlier one has disconnected.
C29_RetryAfterDeadline ==
    \A inv \in DOMAIN requestedAt :
        /\ Len(requestedAt[inv]) = Len(mapAskFor[inv])
        /\ \A k \in 1 .. Len(mapAskFor[inv]) :
              mapAskFor[inv][k].deadline - REQUEST_TIMEOUT <= requestedAt[inv][k]
        /\ \A k \in 1 .. Len(mapAskFor[inv]) - 1 :
              ~mapAskFor[inv][k].gone =>
                 /\ mapAskFor[inv][k + 1].deadline - mapAskFor[inv][k].deadline
                       >= REQUEST_TIMEOUT
                 /\ requestedAt[inv][k + 1] >= mapAskFor[inv][k].deadline

\* A getdata was sent late in its pass, the clock having moved while the
\* worker held the lock, and the retry was sent at the deadline, less than
\* REQUEST_TIMEOUT after it; both nodes are connected.
C29_Witness ==
    \E inv \in DOMAIN requestedAt :
        /\ Len(mapAskFor[inv]) = 2
        /\ ~mapAskFor[inv][1].gone
        /\ ~mapAskFor[inv][2].gone
        /\ requestedAt[inv][1] > mapAskFor[inv][1].deadline - REQUEST_TIMEOUT
        /\ requestedAt[inv][2] = mapAskFor[inv][1].deadline

\* ------------------------------------------------------------------ C30
\* C30: in every state, every work queue entry carries an item that has a
\* request, and is the entry the iterator of that request names; so the
\* worker, at the entry at begin(), always finds the request: the branch
\* "request is missing" is never taken, whatever AskFor, Completed,
\* FinalizeNode and the worker have done before.
C30_NoOrphanEntry ==
    /\ \A k \in 1 .. Len(invRequestsWorkQueue) :
          /\ invRequestsWorkQueue[k].second \in Rows
          /\ mapInvRequests[invRequestsWorkQueue[k].second].workQueueIter
                = invRequestsWorkQueue[k].id
    /\ (pc = "locked" /\ LoopCondition) =>
          invRequestsWorkQueue[1].second \in DOMAIN mapInvRequests

\* The worker woke up at the deadline of an item that was completed while
\* it slept, and is at the due entry of another item: the queue holds no
\* entry of the item completed.
C30_Witness ==
    /\ pc = "locked"
    /\ LoopCondition
    /\ now > 1
    /\ \E inv \in Invs \ Rows :
          /\ EntriesOf(inv) = {}
          /\ \E p \in Registered :
                /\ mapNodeAskForState[p].node # NULL
                /\ mapNodeAskForState[p].setAskFor = {}
    /\ invRequestsWorkQueue[1].first = 0

\* ------------------------------------------------------------------ C31
\* the worker is at the work queue entry of the item
AtEntry(inv) ==
    pc = "locked" /\ LoopCondition /\ invRequestsWorkQueue[1].second = inv

\* C31: whenever the lock is free every request has exactly one work queue
\* entry, and its workQueueIter is not end() and names that entry; so, while
\* the worker runs, it comes to the entry of every request there is, unless
\* the request is erased first (or its entry is due after the last time the
\* clock of the model shows).
C31_OneEntryThenVisit ==
    /\ [](pc # "locked" =>
            \A inv \in Rows :
                /\ Cardinality(EntriesOf(inv)) = 1
                /\ mapInvRequests[inv].workQueueIter # End
                /\ EntriesOf(inv) = {mapInvRequests[inv].workQueueIter})
    /\ \A inv \in Invs :
          (pc # "unstarted" /\ inv \in Rows)
             ~> (AtEntry(inv) \/ inv \notin Rows \/ BeyondClock(inv))

\* The worker sleeps; two requests each have their entry, one at 0 that was
\* put back to work when its node disconnected, one at its deadline.
C31_Witness ==
    /\ pc = "timed_wait"
    /\ Cardinality(Rows) = 2
    /\ Len(invRequestsWorkQueue) = 2
    /\ invRequestsWorkQueue[1].first = 0
    /\ invRequestsWorkQueue[2].first > clock
    /\ mapAskFor[invRequestsWorkQueue[1].second] # <<>>

\* ------------------------------------------------------------------ C32
\* C32: the asserts of RequestItem and of Forget hold: the node the worker
\* picks from notRequestedFrom has a state and a node bound to it, and every
\* node of a request that is forgotten, by the worker or by Completed, has a
\* state.
C32_FetchForgetAssertsHold ==
    /\ (pc = "locked" /\ LoopCondition) =>
          LET inv == invRequestsWorkQueue[1].second
          IN  /\ ProcessHead(Cur, now).ok
              /\ (inv \in Rows /\ mapInvRequests[inv].notRequestedFrom # {}) =>
                    LET nodeid == Min(mapInvRequests[inv].notRequestedFrom)
                    IN  /\ State(mapNodeAskForState, nodeid)
                        /\ mapNodeAskForState[nodeid].node # NULL
              /\ (inv \in Rows /\ mapInvRequests[inv].notRequestedFrom = {}) =>
                    \A n \in mapInvRequests[inv].nodes : State(mapNodeAskForState, n)
    /\ LockFree =>
          \A inv \in Rows :
              /\ CompletedBody(Cur, inv).ok
              /\ \A n \in mapInvRequests[inv].nodes : State(mapNodeAskForState, n)

\* The worker is about to pick a node for one item, the request of another
\* is due with no node left to try and a node that still has a state, and a
\* node has disconnected before.
C32_Witness ==
    /\ pc = "locked" /\ LoopCondition
    /\ Len(invRequestsWorkQueue) = 2
    /\ invRequestsWorkQueue[2].first <= now
    /\ LET a == invRequestsWorkQueue[1].second
           b == invRequestsWorkQueue[2].second
       IN  /\ a \in Rows /\ b \in Rows
           /\ mapInvRequests[a].notRequestedFrom # {}
           /\ mapInvRequests[b].notRequestedFrom = {}
           /\ mapInvRequests[b].nodes # {}
    /\ Registered # FairNodeIds

\* ------------------------------------------------------------------ C33
\* the node a getdata for the item is outstanding to, if any
PeerInFlight(s, inv) ==
    IF s.log[inv] # <<>> /\ ~LastOf(s.log[inv]).gone
    THEN {s.rq[inv].beingRequestedFrom}
    ELSE {}
\* the entries of the items that are not in flight to the node, in the
\* order of the queue
EntriesNotOf(s, q, nodeid) ==
    SelectSeq(Pairs(q), LAMBDA e : PeerInFlight(s, e[2]) # {nodeid})
\* FinalizeNode(nodeid) leaves alone the requests that are not in flight to
\* the node: beingRequestedFrom, the outstanding getdata, and the entries of
\* these requests with their order in the work queue.
FinalizeNodeFrame(s, nodeid) ==
    LET r == FinalizeNodeBody(s, nodeid)
    IN  /\ \A inv \in DOMAIN s.rq :
              PeerInFlight(s, inv) # {nodeid} =>
                 /\ inv \in DOMAIN r.rq
                 /\ r.rq[inv].beingRequestedFrom = s.rq[inv].beingRequestedFrom
                 /\ PeerInFlight(r, inv) = PeerInFlight(s, inv)
        /\ EntriesNotOf(s, r.q, nodeid) = EntriesNotOf(s, s.q, nodeid)

\* C33: FinalizeNode(p) leaves unchanged, for every item that is not in
\* flight to p (items in flight to nobody among them), the node it is in
\* flight to and its work queue entry, time and place among the entries of
\* the same time; for node 0 as for any other node.
C33_DisconnectFrame ==
    LockFree => \A nodeid \in Registered : FinalizeNodeFrame(Cur, nodeid)

\* The same for every node but node 0, and for node 0 as far as the items
\* go that are in flight to somebody or that node 0 has not announced.
C33_DisconnectFrameButZero ==
    LockFree =>
       \A nodeid \in Registered :
          \/ FinalizeNodeFrame(Cur, nodeid)
          \/ /\ nodeid = 0
             /\ \E inv \in mapNodeAskForState[0].setAskFor :
                   inv \in Rows /\ PeerInFlight(Cur, inv) = {}

\* Two items wait at time 0, neither tried, the first of them announced by
\* node 0 and by another node: FinalizeNode(0) puts its entry behind the
\* entry of the second.
C33_Reordered ==
    /\ LockFree
    /\ 0 \in Registered
    /\ Len(invRequestsWorkQueue) = 2
    /\ invRequestsWorkQueue[2].first = 0
    /\ LET a == invRequestsWorkQueue[1].second
           b == invRequestsWorkQueue[2].second
       IN  /\ mapAskFor[a] = <<>> /\ mapAskFor[b] = <<>>
           /\ a \in mapNodeAskForState[0].setAskFor
           /\ mapInvRequests[a].notRequestedFrom \ {0} # {}
           /\ Pairs(FinalizeNodeBody(Cur, 0).q) = <<<<0, b>>, <<0, a>>>>

\* ------------------------------------------------------------------ C34
\* the time of the work queue entry of the item
DueTime(inv) == invRequestsWorkQueue[CHOOSE k \in EntriesOf(inv) : TRUE].first

\* C34: whenever the lock is free, the entry of a request that is in flight
\* to nobody is due at 0, and the entry of a request in flight to a node is
\* due at the deadline of the getdata to that node; that deadline is the
\* `now` of the pass of the worker that picked the node, plus
\* REQUEST_TIMEOUT, and no later step changes it.
C34_DueAtZeroOrPassDeadline ==
    /\ [](pc # "locked" =>
            \A inv \in Rows :
                /\ EntriesOf(inv) # {}
                /\ PeerInFlight(Cur, inv) = {} => DueTime(inv) = 0
                /\ PeerInFlight(Cur, inv) # {} =>
                      DueTime(inv) = LastOf(mapAskFor[inv]).deadline)
    /\ [][\A inv \in Invs :
             /\ Fetched(inv) =>
                   /\ pc = "locked"
                   /\ LastOf(mapAskFor'[inv]).deadline = now + REQUEST_TIMEOUT
             /\ (mapAskFor[inv] # <<>> /\ Len(mapAskFor'[inv]) = Len(mapAskFor[inv])) =>
                   LastOf(mapAskFor'[inv]).deadline = LastOf(mapAskFor[inv]).deadline]_vars

\* The lock is free; one request is back at 0 after the node it was in
\* flight to disconnected, another is in flight with its entry at the
\* deadline of a pass that began at time 1.
C34_Witness ==
    /\ pc # "locked"
    /\ Len(invRequestsWorkQueue) = 2
    /\ LET a == invRequestsWorkQueue[1].second
           b == invRequestsWorkQueue[2].second
       IN  /\ a \in Rows /\ b \in Rows
           /\ mapAskFor[a] # <<>> /\ PeerInFlight(Cur, a) = {}
           /\ PeerInFlight(Cur, b) # {}
           /\ DueTime(a) = 0
           /\ DueTime(b) = 1 + REQUEST_TIMEOUT

\* ------------------------------------------------------------------ C35
\* the entries that are due at time t, in the order of the queue
Due(q, t) == SelectSeq(Pairs(q), LAMBDA e : e[1] <= t)

\* C35: when the worker leaves its loop and releases the lock, no entry of
\* the work queue is due at the `now` of the pass or before.  While it holds
\* the lock the entries due are of different items, every iteration takes
\* the first of them away and adds none (REQUEST_TIMEOUT > 0 puts the entry
\* of the retry after `now`), so each item is handled once at most in a pass;
\* the callers wait for the lock, and the clock and fStopThread leave the
\* queue alone.
C35_NothingDueAtRelease ==
    /\ [](pc = "locked" =>
            \A k, l \in 1 .. Len(Due(invRequestsWorkQueue, now)) :
                Due(invRequestsWorkQueue, now)[k][2] = Due(invRequestsWorkQueue, now)[l][2]
                   => k = l)
    /\ [][pc = "locked" =>
            \/ /\ pc' = "locked"
               /\ now' = now
               /\ Due(invRequestsWorkQueue, now) # <<>>
               /\ Due(invRequestsWorkQueue', now) =
                     SubSeq(Due(invRequestsWorkQueue, now), 2,
                            Len(Due(invRequestsWorkQueue, now)))
            \/ /\ pc' = "locked"
               /\ now' = now
               /\ invRequestsWorkQueue' = invRequestsWorkQueue
            \/ /\ pc' \in {"wait", "timed_wait", "loop"}
               /\ invRequestsWorkQueue' = invRequestsWorkQueue
               /\ \A k \in 1 .. Len(invRequestsWorkQueue) :
                     invRequestsWorkQueue[k].first > now
            \/ pc' = "aborted"]_vars

\* The worker is about to release the lock after a pass in which it asked
\* for two items: their entries are at the end of the timeout that began
\* with the `now` of the pass.
C35_Witness ==
    /\ pc = "locked" /\ ~LoopCondition
    /\ now > 0
    /\ Len(invRequestsWorkQueue) = 2
    /\ \A k \in 1 .. 2 :
          /\ invRequestsWorkQueue[k].first = now + REQUEST_TIMEOUT
          /\ PeerInFlight(Cur, invRequestsWorkQueue[k].second) # {}
    /\ \E inv \in Rows : Len(mapAskFor[inv]) = 2

\* ------------------------------------------------------------------ C36
\* C36: InitializeNode for a node that has a state leaves that state, its
\* setAskFor and its node, as it is, and leaves every request, every work
\* queue entry and every getdata as they are: the node does not start again
\* from a new state.
C36_ReconnectKeepsState ==
    [][/\ \A nodeid \in Registered :
             InitializeNode(nodeid) =>
                /\ State(mapNodeAskForState', nodeid)
                /\ mapNodeAskForState'[nodeid] = mapNodeAskForState[nodeid]
                /\ mapInvRequests' = mapInvRequests
                /\ invRequestsWorkQueue' = invRequestsWorkQueue
                /\ mapAskFor' = mapAskFor
       /\ (nConnects' = nConnects + 1 /\ Registered' = Registered) =>
             mapNodeAskForState' = mapNodeAskForState]_vars

\* InitializeNode found the node with an item in its setAskFor and a node
\* bound to it, and the node has had that very state since, with the request
\* of the item.
C36_Witness ==
    \E nodeid \in Registered \cap DOMAIN found :
        /\ found[nodeid].setAskFor # {}
        /\ found[nodeid].node # NULL
        /\ mapNodeAskForState[nodeid] = found[nodeid]
        /\ \A inv \in found[nodeid].setAskFor :
              inv \in Rows /\ nodeid \in mapInvRequests[inv].nodes

====
